---- MODULE Spec2Model ----
(***************************************************************************)
(* A model of glyhunter's composition/mass model and its two search        *)
(* engines (src/glyhunter/database.py, glycan.py, denovo.py).              *)
(*                                                                         *)
(* Floats are fixed-point integers: one unit is 0.00005 Da, so that every  *)
(* mass of the tables (4 decimals) is an even number of units and the      *)
(* halved mass of a doubly charged ion is exact.  Python dicts are         *)
(* insertion-ordered: a dict is a sequence of [key, val] entries with      *)
(* distinct keys.                                                          *)
(***************************************************************************)
EXTENDS Integers, Sequences, FiniteSets, TLC

VARIABLES
    phase,      \* which part of the program the run is in
    file,       \* the Byonic file: a sequence of lines
    cfg,        \* keyword arguments of Database.from_byonic
    db,         \* outcome of the last Database.from_byonic call
    data,       \* Database.data of the database being searched
    query,      \* the last (mz, tol) query
    result,     \* outcome of the last search / search_closest call
    order,      \* insertion order handed to the last Composition / Ion constructor
    residues,   \* the residue multiset the constructed compositions are made of
    rendered,   \* str() of the compositions constructed so far
    gen,        \* input and output of the last glycan.generate_ion call
    engine,     \* the DeNovoEngine: its attributes
    call,       \* input and output of the last call of a static method of DeNovoEngine
    fs,         \* the file system: the .glyhunter directory and the output directory
    searcher    \* the MassListSearcher, the mass list of its last run and the rows returned

vars == <<phase, file, cfg, db, data, query, result, order, residues, rendered, gen, engine, call, fs, searcher>>

(***************************************************************************)
(* Generic helpers: Python sequences and ordered dicts.                    *)
(***************************************************************************)
Abs(x) == IF x < 0 THEN -x ELSE x

Range(s) == {s[i] : i \in DOMAIN s}

RECURSIVE Flatten(_)
Flatten(ss) == IF ss = <<>> THEN <<>> ELSE Head(ss) \o Flatten(Tail(ss))

RECURSIVE SumSeq(_)
SumSeq(s) == IF s = <<>> THEN 0 ELSE Head(s) + SumSeq(Tail(s))

\* list.index(x): the first position of x
IndexOf(s, x) == CHOOSE i \in 1..Len(s) : s[i] = x /\ \A j \in 1..(i - 1) : s[j] # x

\* dict keys in insertion order
Keys(d) == [i \in 1..Len(d) |-> d[i].key]

HasKey(d, k) == \E i \in 1..Len(d) : d[i].key = k

\* d[k]
DictGet(d, k) == d[CHOOSE i \in 1..Len(d) : d[i].key = k].val

\* d.get(k, default)
DictGetDefault(d, k, default) == IF HasKey(d, k) THEN DictGet(d, k) ELSE default

\* d[k] = v: an existing key keeps its position and takes the new value
DictSet(d, k, v) ==
    IF HasKey(d, k)
    THEN [i \in 1..Len(d) |-> IF d[i].key = k THEN [key |-> k, val |-> v] ELSE d[i]]
    ELSE Append(d, [key |-> k, val |-> v])

\* dict(pairs) / a dict comprehension over pairs, in order
RECURSIVE DictOf(_)
DictOf(pairs) ==
    IF pairs = <<>> THEN <<>>
    ELSE LET n == Len(pairs)
         IN  DictSet(DictOf(SubSeq(pairs, 1, n - 1)), pairs[n].key, pairs[n].val)

\* itertools.product(*lists): the rightmost list advances fastest
RECURSIVE Product(_)
Product(lists) ==
    IF lists = <<>> THEN << <<>> >>
    ELSE LET rest == Product(Tail(lists))
             first == Head(lists)
         IN  Flatten([i \in 1..Len(first) |->
                        [j \in 1..Len(rest) |-> <<first[i]>> \o rest[j]]])

\* a variant that inserts x in front of the elements of equal sort key
InsertByKey_BeforeEqual(s, x) ==
    LET n == Cardinality({i \in 1..Len(s) : s[i].sortkey < x.sortkey})
    IN  SubSeq(s, 1, n) \o <<x>> \o SubSeq(s, n + 1, Len(s))

\* sorted(): insert x behind every element whose sort key is <= its own
InsertByKey(s, x) ==
    LET n == Cardinality({i \in 1..Len(s) : s[i].sortkey <= x.sortkey})
    IN  SubSeq(s, 1, n) \o <<x>> \o SubSeq(s, n + 1, Len(s))

\* sorted(items, key=...) on [sortkey, item] pairs: Python's sort is stable
RECURSIVE Sorted(_)
Sorted(s) ==
    IF s = <<>> THEN <<>>
    ELSE LET n == Len(s) IN InsertByKey(Sorted(SubSeq(s, 1, n - 1)), s[n])

(***************************************************************************)
(* Mass model.                                                             *)
(***************************************************************************)
\* database.MONOSACCHARIDES
DB_MONOSACCHARIDES ==
    <<"Hex", "HexNAc", "dHex", "Pen", "NeuAc", "NeuGc", "KDN", "HexA">>

\* glycan.MONOSACCHARIDES: the global modifications are listed too
MONOSACCHARIDES ==
    <<"Hex", "HexNAc", "dHex", "Pen", "NeuAc", "NeuGc", "KDN", "HexA", "Ac", "P", "S">>

\* database.MASSES, in units of 0.00005
DB_MASSES ==
    [n \in {"Hex", "HexNAc", "dHex", "Pen", "NeuAc", "NeuGc", "KDN", "HexA",
            "H+", "H20", "K+", "Na+", "P", "S"} |->
        CASE n = "Hex"    -> 3241056
          [] n = "HexNAc" -> 4061588
          [] n = "dHex"   -> 2921158
          [] n = "Pen"    -> 2640846
          [] n = "NeuAc"  -> 5821908
          [] n = "NeuGc"  -> 6141806
          [] n = "KDN"    -> 5001378
          [] n = "HexA"   -> 3520642
          [] n = "H+"     -> 20146
          [] n = "H20"    -> 360212
          [] n = "K+"     -> 779274
          [] n = "Na+"    -> 459796
          [] n = "P"      -> 1599326
          [] n = "S"      -> 1599136]

\* glycan.MASSES: database.MASSES and Ac
MASSES == [n \in (DOMAIN DB_MASSES) \cup {"Ac"} |->
              IF n = "Ac" THEN 840212 ELSE DB_MASSES[n]]

\* 1.0 in units of 0.00005
One == 2 * 10000

\* MonoSaccharide(name, modi); the name validator is MonoValid
Mono(name, modi) == [name |-> name, modi |-> modi]

\* database.MonoSaccharide._validate_name
DbMonoValid(name) == name \in Range(DB_MONOSACCHARIDES)

\* glycan.MonoSaccharide._validate_name
MonoValid(name) == name \in Range(MONOSACCHARIDES)

\* database.MonoSaccharide.mass
DbMonoMass(m) == DB_MASSES[m.name] + m.modi

\* glycan.MonoSaccharide.mass
MonoMass(m) == MASSES[m.name] + m.modi

\* MonoSaccharide.__str__: the bare name when modi == 0.0, else name[+modi] with
\* the sign always written; a string is the sequence of its pieces
MonoStr(m) ==
    IF m.modi = 0 THEN <<m.name>>
    ELSE <<m.name, "[", IF m.modi >= 0 THEN "+" ELSE "-", ToString(Abs(m.modi)), "]">>

(***************************************************************************)
(* database.Composition and database.Ion.                                  *)
(***************************************************************************)
\* Composition.__attrs_post_init__: the keys sorted by the alphabet position
\* of their NAME alone (a stable sort), the dict rebuilt in that order
DbSortComp(comp) ==
    LET keyed == [i \in 1..Len(comp) |->
                    [sortkey |-> IndexOf(DB_MONOSACCHARIDES, comp[i].key.name),
                     item |-> comp[i]]]
        s == Sorted(keyed)
    IN  [i \in 1..Len(s) |-> s[i].item]

\* Composition(comp=..., reducing_end=...): converter=dict, then the post-init
Composition(comp, reducing_end) ==
    [comp |-> DbSortComp(DictOf(comp)), reducing_end |-> reducing_end]

\* "".join(f"{k}({v})" for k, v in comp.items()), of Composition and glycan.Ion
CompStr(comp) ==
    Flatten([i \in 1..Len(comp) |->
               MonoStr(comp[i].key) \o <<"(", ToString(comp[i].val), ")">>])

\* Composition.__str__
CompositionStr(c) == CompStr(c.comp)

\* Composition.mass
CompositionMass(c) ==
    SumSeq([i \in 1..Len(c.comp) |-> DbMonoMass(c.comp[i].key) * c.comp[i].val])
    + c.reducing_end + DB_MASSES["H20"]

\* database.Ion
DbIon(comp, charge, charge_carrier) ==
    [comp |-> comp, charge |-> charge, charge_carrier |-> charge_carrier]

\* a variant that does not divide by the charge
DbIonMz_NoCharge(ion) == CompositionMass(ion.comp) + DB_MASSES[ion.charge_carrier]

\* database.Ion.mz
DbIonMz(ion) ==
    (CompositionMass(ion.comp) \div ion.charge) + DB_MASSES[ion.charge_carrier]

(***************************************************************************)
(* Database.search and Database.search_closest.                            *)
(***************************************************************************)
\* a variant whose window leaves out its two ends
SearchFilter_Open(d, mz, tol) == SelectSeq(d, LAMBDA c : Abs(DbIonMz(c) - mz) < tol)

\* result = [c for c in self.data if abs(c.mz - mz) <= tol]
SearchFilter(d, mz, tol) == SelectSeq(d, LAMBDA c : Abs(DbIonMz(c) - mz) <= tol)

\* a variant that returns the matches unsorted
DbSearch_Unsorted(d, mz, tol) == SearchFilter(d, mz, tol)

\* Database.search
DbSearch(d, mz, tol) ==
    LET hits == SearchFilter(d, mz, tol)
        keyed == [i \in 1..Len(hits) |->
                    [sortkey |-> Abs(DbIonMz(hits[i]) - mz), item |-> hits[i]]]
        s == Sorted(keyed)
    IN  [i \in 1..Len(s) |-> s[i].item]

\* the value None, in the shape of an optional ion
None == [some |-> FALSE, ion |-> <<>>]

Some(ion) == [some |-> TRUE, ion |-> <<ion>>]

\* Database.search_closest
DbSearchClosest(d, mz, tol) ==
    LET r == DbSearch(d, mz, tol)
    IN  IF r # <<>> THEN Some(r[1]) ELSE None

(***************************************************************************)
(* Database.from_byonic.  A line is a sequence of lexical items: a         *)
(* Name(count) token (a match of ([A-Za-z]+)\((\d+)\)), the "%" sign, the  *)
(* "#" sign, white space, or other text that holds no letters.             *)
(***************************************************************************)
Item(kind, name, count) == [kind |-> kind, name |-> name, count |-> count]

Tok(name, count) == Item("tok", name, count)

Pct == Item("%", "", 0)

Hash == Item("#", "", 0)

Space == Item(" ", "", 0)

Text == Item("text", "", 0)

\* str.strip(): leading and trailing white space removed
RECURSIVE LStrip(_)
LStrip(l) == IF l # <<>> /\ Head(l) = Space THEN LStrip(Tail(l)) ELSE l

RECURSIVE RStrip(_)
RStrip(l) ==
    IF l # <<>> /\ l[Len(l)] = Space THEN RStrip(SubSeq(l, 1, Len(l) - 1)) ELSE l

Strip(l) == RStrip(LStrip(l))

\* a variant that takes no line for a comment
StartsWithHash_Never(l) == FALSE

\* line.startswith("#")
StartsWithHash(l) == l # <<>> /\ Head(l) = Hash

\* line_.split("%")[0]: what precedes the first "%"
BeforePercent(l) ==
    IF \E i \in 1..Len(l) : l[i] = Pct
    THEN SubSeq(l, 1, (CHOOSE i \in 1..Len(l) :
                          l[i] = Pct /\ \A j \in 1..(i - 1) : l[j] # Pct) - 1)
    ELSE l

\* the comp_name_dict loop of parse_line: one entry per re.finditer match,
\* comp_name_dict[name] = count
CompNameDict(l) ==
    LET toks == SelectSeq(l, LAMBDA it : it.kind = "tok")
    IN  DictOf([i \in 1..Len(toks) |-> [key |-> toks[i].name, val |-> toks[i].count]])

\* a variant that leaves a residue the map lacks without any choice
LineModifications_NoDefault(comp_name_dict, modifications) ==
    [i \in 1..Len(comp_name_dict) |->
        [key |-> comp_name_dict[i].key,
         val |-> DictGetDefault(modifications, comp_name_dict[i].key, <<>>)]]

\* modifications_ = {k: modifications_.get(k, [0.0]) for k in comp_name_dict}
LineModifications(comp_name_dict, modifications) ==
    [i \in 1..Len(comp_name_dict) |->
        [key |-> comp_name_dict[i].key,
         val |-> DictGetDefault(modifications, comp_name_dict[i].key, <<0>>)]]

\* the exception a call ends with, if any: its type and what its message names
NoError == [type |-> "", residues |-> <<>>, lines |-> <<>>]

\* ValueError(f"Unknown monosaccharide {value}.")
UnknownMonosaccharide(value) ==
    [type |-> "ValueError", residues |-> <<value>>, lines |-> <<>>]

\* Database.from_byonic.parse_line, run to its end by compositions.extend():
\* the compositions it yields, or the exception MonoSaccharide() raises while
\* the first comp_dict is built
ParseLine(line_, modifications_, reducing_end) ==
    LET pre == BeforePercent(line_)
        comp_name_dict == CompNameDict(pre)
        mods_ == LineModifications(comp_name_dict, modifications_)
        combos == Product([i \in 1..Len(mods_) |-> mods_[i].val])
        names == Keys(mods_)
        bad == SelectSeq(names, LAMBDA n : ~DbMonoValid(n))
        comp_dict(mods) == [i \in 1..Len(names) |->
                              [key |-> Mono(names[i], mods[i]),
                               val |-> DictGet(comp_name_dict, names[i])]]
    IN  IF combos # <<>> /\ bad # <<>>
        THEN [error |-> UnknownMonosaccharide(bad[1]), comps |-> <<>>]
        ELSE [error |-> NoError,
              comps |-> [k \in 1..Len(combos) |->
                           Composition(comp_dict(combos[k]), reducing_end)]]

\* the "for line in f" loop of from_byonic: the local list compositions, or
\* the exception that ended the loop
RECURSIVE ReadLines(_, _, _)
ReadLines(f, modifications, reducing_end) ==
    IF f = <<>> THEN [error |-> NoError, comps |-> <<>>]
    ELSE LET n == Len(f)
             before == ReadLines(SubSeq(f, 1, n - 1), modifications, reducing_end)
             line == Strip(f[n])
             parsed == ParseLine(line, modifications, reducing_end)
         IN  IF before.error # NoError THEN before
             ELSE IF line = <<>> \/ StartsWithHash(line) THEN before
             ELSE IF parsed.error # NoError THEN [error |-> parsed.error, comps |-> <<>>]
             ELSE [error |-> NoError, comps |-> before.comps \o parsed.comps]

\* Database.from_byonic: the database returned (returned = TRUE, its data and
\* the local list compositions it was made from) or the exception raised
FromByonic(f, charge_carrier, charges, reducing_end, modifications) ==
    LET read == ReadLines(f, modifications, reducing_end)
        ions == Flatten([i \in 1..Len(read.comps) |->
                           [j \in 1..Len(charges) |->
                              DbIon(read.comps[i], charges[j], charge_carrier)]])
    IN  IF read.error # NoError
        THEN [returned |-> FALSE, error |-> read.error, compositions |-> <<>>, data |-> <<>>]
        ELSE [returned |-> TRUE, error |-> NoError, compositions |-> read.comps, data |-> ions]

(***************************************************************************)
(* glycan.Ion and glycan.generate_ion.                                     *)
(***************************************************************************)
\* glycan.Ion.__attrs_post_init__: as Composition's, over glycan.MONOSACCHARIDES
SortComp(comp) ==
    LET keyed == [i \in 1..Len(comp) |->
                    [sortkey |-> IndexOf(MONOSACCHARIDES, comp[i].key.name),
                     item |-> comp[i]]]
        s == Sorted(keyed)
    IN  [i \in 1..Len(s) |-> s[i].item]

\* glycan.Ion(comp, reducing_end, charge_carrier)
Ion(comp, reducing_end, charge_carrier) ==
    [comp |-> SortComp(DictOf(comp)), reducing_end |-> reducing_end,
     charge_carrier |-> charge_carrier]

\* glycan.Ion.__str__
IonStr(ion) == CompStr(ion.comp)

\* glycan.Ion.mz
IonMz(ion) ==
    SumSeq([i \in 1..Len(ion.comp) |-> MonoMass(ion.comp[i].key) * ion.comp[i].val])
    + ion.reducing_end + MASSES["H20"] + MASSES[ion.charge_carrier]

\* range(n)
PyRange(n) == [i \in 1..n |-> i - 1]

\* a variant that stops one short of the maximum count
PossibleGlobalModifications_Short(constraints) ==
    LET vectors == Product([i \in 1..Len(constraints) |-> PyRange(constraints[i].val)])
        entries(v) == [i \in 1..Len(constraints) |-> [key |-> constraints[i].key, val |-> v[i]]]
    IN  [k \in 1..Len(vectors) |-> SelectSeq(entries(vectors[k]), LAMBDA e : e.val # 0)]

\* glycan._possible_global_modifications: one dict per element of the product
\* of range(max + 1), the zero counts left out
PossibleGlobalModifications(constraints) ==
    LET vectors == Product([i \in 1..Len(constraints) |-> PyRange(constraints[i].val + 1)])
        entries(v) == [i \in 1..Len(constraints) |-> [key |-> constraints[i].key, val |-> v[i]]]
    IN  [k \in 1..Len(vectors) |-> SelectSeq(entries(vectors[k]), LAMBDA e : e.val # 0)]

\* the inner loop body of generate_ion: comp_with_mods.copy(), then
\* comp_with_global_mods[MonoSaccharide(name)] = count for each global modification
RECURSIVE WithGlobalMods(_, _)
WithGlobalMods(comp_with_mods, global_mods) ==
    IF global_mods = <<>> THEN comp_with_mods
    ELSE LET n == Len(global_mods)
         IN  DictSet(WithGlobalMods(comp_with_mods, SubSeq(global_mods, 1, n - 1)),
                     Mono(global_mods[n].key, 0), global_mods[n].val)

\* glycan.generate_ion, run to its end: the ions it yields in order and the
\* exception (a MonoSaccharide of unknown name) that ends it, if any
GenerateIon(comp, reducing_end, charge_carrier, modifications, global_mod_constraints) ==
    LET mods_ == LineModifications(comp, modifications)
        combos == Product([i \in 1..Len(mods_) |-> mods_[i].val])
        names == Keys(mods_)
        bad == SelectSeq(names, LAMBDA n : ~MonoValid(n))
        comp_with_mods(mods) == [i \in 1..Len(names) |->
                                   [key |-> Mono(names[i], mods[i]),
                                    val |-> DictGet(comp, names[i])]]
        globals == PossibleGlobalModifications(global_mod_constraints)
        badGlobal(g) == SelectSeq(Keys(g), LAMBDA n : ~MonoValid(n))
        \* the steps of the two nested loops, in order
        steps == Flatten([k \in 1..Len(combos) |->
                            [g \in 1..Len(globals) |->
                               [mods |-> combos[k], global_mods |-> globals[g]]]])
        fails(st) == bad # <<>> \/ badGlobal(st.global_mods) # <<>>
        failing == {i \in 1..Len(steps) : fails(steps[i])}
        stop == IF failing = {} THEN Len(steps) + 1
                ELSE CHOOSE i \in failing : \A j \in failing : i <= j
    IN  [error |-> IF failing = {} THEN NoError
                   ELSE UnknownMonosaccharide(
                          IF bad # <<>> THEN bad[1]
                          ELSE badGlobal(steps[stop].global_mods)[1]),
         ions |-> [i \in 1..(stop - 1) |->
                     Ion(WithGlobalMods(comp_with_mods(steps[i].mods), steps[i].global_mods),
                         reducing_end, charge_carrier)]]

\* glycan.check_comp: (valid, the unknown names that the message lists, sorted)
CheckComp(comp) ==
    LET invalid_names == {n \in Range(Keys(comp)) : ~MonoValid(n)}
    IN  [valid |-> invalid_names = {}, invalid_names |-> invalid_names]

(***************************************************************************)
(* denovo.DeNovoEngine.                                                    *)
(***************************************************************************)
\* KeyError(name): self._mono_constraints[name] of a missing name
KeyError(name) == [type |-> "KeyError", residues |-> <<name>>, lines |-> <<>>]

\* a variant that takes the residues whatever their maximum count
UpdateMonoCandidates_AnyMax(modifications, mono_constraints, global_mod_constraints) ==
    LET \* what the loop body does for the i-th item of modifications
        step(i) ==
            LET name == modifications[i].key
                mods == modifications[i].val
            IN  IF ~HasKey(mono_constraints, name)
                THEN [error |-> KeyError(name), monos |-> <<>>]
                ELSE IF DictGet(mono_constraints, name)[2] >= 0
                THEN IF mods # <<>> /\ ~MonoValid(name)
                     THEN [error |-> UnknownMonosaccharide(name), monos |-> <<>>]
                     ELSE [error |-> NoError,
                           monos |-> [j \in 1..Len(mods) |-> Mono(name, mods[j])]]
                ELSE [error |-> NoError, monos |-> <<>>]
        gstep(i) ==
            LET name == global_mod_constraints[i].key
                count == global_mod_constraints[i].val
            IN  IF count > 0
                THEN IF ~MonoValid(name)
                     THEN [error |-> UnknownMonosaccharide(name), monos |-> <<>>]
                     ELSE [error |-> NoError, monos |-> <<Mono(name, 0)>>]
                ELSE [error |-> NoError, monos |-> <<>>]
        steps == [i \in 1..Len(modifications) |-> step(i)]
                 \o [i \in 1..Len(global_mod_constraints) |-> gstep(i)]
        failing == {i \in 1..Len(steps) : steps[i].error # NoError}
    IN  IF failing # {}
        THEN [error |-> steps[CHOOSE i \in failing : \A j \in failing : i <= j].error,
              monos |-> <<>>]
        ELSE [error |-> NoError,
              monos |-> Flatten([i \in 1..Len(steps) |-> steps[i].monos])]

\* DeNovoEngine._update_mono_candidates: the new _mono_candidates, or the
\* exception raised before they are assigned
UpdateMonoCandidates(modifications, mono_constraints, global_mod_constraints) ==
    LET \* what the loop body does for the i-th item of modifications
        step(i) ==
            LET name == modifications[i].key
                mods == modifications[i].val
            IN  IF ~HasKey(mono_constraints, name)
                THEN [error |-> KeyError(name), monos |-> <<>>]
                ELSE IF DictGet(mono_constraints, name)[2] > 0
                THEN IF mods # <<>> /\ ~MonoValid(name)
                     THEN [error |-> UnknownMonosaccharide(name), monos |-> <<>>]
                     ELSE [error |-> NoError,
                           monos |-> [j \in 1..Len(mods) |-> Mono(name, mods[j])]]
                ELSE [error |-> NoError, monos |-> <<>>]
        gstep(i) ==
            LET name == global_mod_constraints[i].key
                count == global_mod_constraints[i].val
            IN  IF count > 0
                THEN IF ~MonoValid(name)
                     THEN [error |-> UnknownMonosaccharide(name), monos |-> <<>>]
                     ELSE [error |-> NoError, monos |-> <<Mono(name, 0)>>]
                ELSE [error |-> NoError, monos |-> <<>>]
        steps == [i \in 1..Len(modifications) |-> step(i)]
                 \o [i \in 1..Len(global_mod_constraints) |-> gstep(i)]
        failing == {i \in 1..Len(steps) : steps[i].error # NoError}
    IN  IF failing # {}
        THEN [error |-> steps[CHOOSE i \in failing : \A j \in failing : i <= j].error,
              monos |-> <<>>]
        ELSE [error |-> NoError,
              monos |-> Flatten([i \in 1..Len(steps) |-> steps[i].monos])]

\* DeNovoEngine._update_constraints: the mono constraints, then (0, count) for
\* each global modification
UpdateConstraints(mono_constraints, global_mod_constraints) ==
    DictOf(mono_constraints
           \o [i \in 1..Len(global_mod_constraints) |->
                 [key |-> global_mod_constraints[i].key,
                  val |-> <<0, global_mod_constraints[i].val>>]])

\* a variant that takes a sum equal to target - tol for too small
RECURSIVE Backtrack_StrictLower(_, _, _, _, _, _, _)
Backtrack_StrictLower(current, start, path, target, tol, candidates, fuel) ==
    IF current > target + tol THEN [deep |-> FALSE, solutions |-> <<>>]
    ELSE IF current > target - tol THEN [deep |-> FALSE, solutions |-> <<path>>]
    ELSE IF fuel = 0 THEN [deep |-> start < Len(candidates), solutions |-> <<>>]
    ELSE LET sub == [k \in 1..(Len(candidates) - start) |->
                       LET i == start + k - 1
                       IN  Backtrack_StrictLower(current + candidates[i + 1], i,
                                                 Append(path, i), target, tol,
                                                 candidates, fuel - 1)]
         IN  [deep |-> \E k \in 1..Len(sub) : sub[k].deep,
              solutions |-> Flatten([k \in 1..Len(sub) |-> sub[k].solutions])]

\* a variant that does not stop at a sum beyond target + tol
RECURSIVE Backtrack_NoPrune(_, _, _, _, _, _, _)
Backtrack_NoPrune(current, start, path, target, tol, candidates, fuel) ==
    IF current >= target - tol THEN [deep |-> FALSE, solutions |-> <<path>>]
    ELSE IF fuel = 0 THEN [deep |-> start < Len(candidates), solutions |-> <<>>]
    ELSE LET sub == [k \in 1..(Len(candidates) - start) |->
                       LET i == start + k - 1
                       IN  Backtrack_NoPrune(current + candidates[i + 1], i,
                                             Append(path, i), target, tol,
                                             candidates, fuel - 1)]
         IN  [deep |-> \E k \in 1..Len(sub) : sub[k].deep,
              solutions |-> Flatten([k \in 1..Len(sub) |-> sub[k].solutions])]

\* a variant that lets every index follow every index
RECURSIVE Backtrack_AnyOrder(_, _, _, _, _, _, _)
Backtrack_AnyOrder(current, start, path, target, tol, candidates, fuel) ==
    IF current > target + tol THEN [deep |-> FALSE, solutions |-> <<>>]
    ELSE IF current >= target - tol THEN [deep |-> FALSE, solutions |-> <<path>>]
    ELSE IF fuel = 0 THEN [deep |-> start < Len(candidates), solutions |-> <<>>]
    ELSE LET sub == [k \in 1..(Len(candidates) - start) |->
                       LET i == start + k - 1
                       IN  Backtrack_AnyOrder(current + candidates[i + 1], 0,
                                              Append(path, i), target, tol,
                                              candidates, fuel - 1)]
         IN  [deep |-> \E k \in 1..Len(sub) : sub[k].deep,
              solutions |-> Flatten([k \in 1..Len(sub) |-> sub[k].solutions])]

\* DeNovoEngine._combination_sum.backtrack with fuel frames left before the
\* interpreter's recursion limit: the solutions appended (paths of 0-based
\* indices), and whether a call was made with no frame left (RecursionError)
RECURSIVE Backtrack(_, _, _, _, _, _, _)
Backtrack(current, start, path, target, tol, candidates, fuel) ==
    IF current > target + tol THEN [deep |-> FALSE, solutions |-> <<>>]
    ELSE IF current >= target - tol THEN [deep |-> FALSE, solutions |-> <<path>>]
    ELSE IF fuel = 0 THEN [deep |-> start < Len(candidates), solutions |-> <<>>]
    ELSE LET sub == [k \in 1..(Len(candidates) - start) |->
                       LET i == start + k - 1
                       IN  Backtrack(current + candidates[i + 1], i, Append(path, i),
                                     target, tol, candidates, fuel - 1)]
         IN  [deep |-> \E k \in 1..Len(sub) : sub[k].deep,
              solutions |-> Flatten([k \in 1..Len(sub) |-> sub[k].solutions])]

\* the interpreter's recursion limit (sys.getrecursionlimit(), 1000 frames by
\* default), scaled to the masses of the model: no sum of more than MaxDepth
\* positive candidate masses lies below a target of the model
MaxDepth == 12

\* DeNovoEngine._combination_sum: backtrack(0.0, 0, [])
CombinationSum(target, tol, candidates) ==
    Backtrack(0, 0, <<>>, target, tol, candidates, MaxDepth)

\* collections.Counter(iterable): an entry per distinct element, in the order
\* of first occurrence, with the number of its occurrences
RECURSIVE CounterOf(_)
CounterOf(xs) ==
    IF xs = <<>> THEN <<>>
    ELSE LET n == Len(xs)
             c == CounterOf(SubSeq(xs, 1, n - 1))
         IN  DictSet(c, xs[n], DictGetDefault(c, xs[n], 0) + 1)

\* a variant that keeps the last count of a name instead of adding the counts
RECURSIVE CompXModif_Overwrite(_)
CompXModif_Overwrite(comp) ==
    IF comp = <<>> THEN <<>>
    ELSE LET n == Len(comp)
             c == CompXModif_Overwrite(SubSeq(comp, 1, n - 1))
         IN  DictSet(c, comp[n].key.name, comp[n].val)

\* the comp_x_modif loop of _filter_constrains: comp_x_modif[mono.name] += count
RECURSIVE CompXModif(_)
CompXModif(comp) ==
    IF comp = <<>> THEN <<>>
    ELSE LET n == Len(comp)
             c == CompXModif(SubSeq(comp, 1, n - 1))
             name == comp[n].key.name
         IN  DictSet(c, name, DictGetDefault(c, name, 0) + comp[n].val)

\* the for/else of _filter_constrains: no constraint is broken
WithinConstraints(comp, constraints) ==
    LET comp_x_modif == CompXModif(comp)
    IN  \A i \in 1..Len(constraints) :
           LET n == DictGetDefault(comp_x_modif, constraints[i].key, 0)
           IN  ~(n < constraints[i].val[1] \/ n > constraints[i].val[2])

\* a variant that drops the compositions without residues
FilterConstrains_DropsEmpty(comps, constraints) ==
    SelectSeq(comps, LAMBDA comp : comp # <<>> /\ WithinConstraints(comp, constraints))

\* DeNovoEngine._filter_constrains
FilterConstrains(comps, constraints) ==
    SelectSeq(comps, LAMBDA comp : WithinConstraints(comp, constraints))

\* DeNovoEngine.search: the ions returned, and whether backtrack recursed
\* deeper than the model follows it
DeNovoSearch(e, mz, tol) ==
    LET target == mz - MASSES[e.charge_carrier] - e.reducing_end - MASSES["H20"]
        candidates == [i \in 1..Len(e.mono_candidates) |-> MonoMass(e.mono_candidates[i])]
        found == CombinationSum(target, tol, candidates)
        solutions == found.solutions
        comps == [k \in 1..Len(solutions) |->
                    CounterOf([j \in 1..Len(solutions[k]) |->
                                 e.mono_candidates[solutions[k][j] + 1]])]
        kept == FilterConstrains(comps, e.constraints)
    IN  [deep |-> found.deep,
         ions |-> [k \in 1..Len(kept) |-> Ion(kept[k], e.reducing_end, e.charge_carrier)]]

\* a variant that takes the first ion found, without sorting
DeNovoSearchClosest_First(e, mz, tol) ==
    LET ions == DeNovoSearch(e, mz, tol).ions
    IN  IF ions # <<>> THEN Some(ions[1]) ELSE None

\* DeNovoEngine.search_closest
DeNovoSearchClosest(e, mz, tol) ==
    LET ions == DeNovoSearch(e, mz, tol).ions
        keyed == [i \in 1..Len(ions) |->
                    [sortkey |-> Abs(IonMz(ions[i]) - mz), item |-> ions[i]]]
        s == Sorted(keyed)
    IN  IF ions # <<>> THEN Some(s[1].item) ELSE None

\* DeNovoEngine(...): the attrs __init__, then __attrs_post_init__; the engine
\* constructed, or the exception raised
NewEngine(charge_carrier, reducing_end, modifications, mono_constraints, global_mod_constraints) ==
    LET cands == UpdateMonoCandidates(modifications, mono_constraints,
                                      global_mod_constraints)
    IN  [error |-> cands.error,
         charge_carrier |-> charge_carrier,
         reducing_end |-> reducing_end,
         modifications |-> modifications,
         mono_constraints |-> mono_constraints,
         global_mod_constraints |-> global_mod_constraints,
         mono_candidates |-> cands.monos,
         constraints |-> IF cands.error = NoError
                         THEN UpdateConstraints(mono_constraints, global_mod_constraints)
                         ELSE <<>>]

(***************************************************************************)
(* Values of the variables a specification does not use.                   *)
(***************************************************************************)
NoCfg == [charge_carrier |-> "", charges |-> <<>>, reducing_end |-> 0, modifications |-> <<>>]

NoDb == [returned |-> FALSE, error |-> NoError, compositions |-> <<>>, data |-> <<>>]

NoQuery == [mz |-> 0, tol |-> 0]

NoResult == [op |-> "", ions |-> <<>>, closest |-> None, deep |-> FALSE]

NoGen == [comp |-> <<>>, modifications |-> <<>>, global_mod_constraints |-> <<>>,
          called |-> FALSE, error |-> NoError, ions |-> <<>>]

NoEngine == [error |-> NoError, charge_carrier |-> "", reducing_end |-> 0,
             modifications |-> <<>>, mono_constraints |-> <<>>,
             global_mod_constraints |-> <<>>, mono_candidates |-> <<>>,
             constraints |-> <<>>]

NoCall == [fn |-> "", target |-> 0, tol |-> 0, candidates |-> <<>>, comps |-> <<>>,
           constraints |-> <<>>, called |-> FALSE, deep |-> FALSE, out |-> <<>>]

\* an empty home directory, and no call of the api made
NoFs == [home |-> "absent", db |-> "", config |-> "", out |-> {},
         op |-> "", force |-> FALSE, path |-> "", existed |-> FALSE, confirm |-> FALSE,
         error |-> "", returned |-> ""]

\* no MassListSearcher has run
NoSearcher == [search_engine |-> <<>>, mz_tol |-> 0, all_candidates |-> FALSE,
               mass_list |-> <<>>, called |-> FALSE, rows |-> <<>>]

Entry(k, v) == [key |-> k, val |-> v]

(***************************************************************************)
(* Building a database: a Byonic file is written line by line, loaded with *)
(* Database.from_byonic, then edited without touching its records (blank   *)
(* and comment lines inserted, the text behind "%" replaced) and loaded    *)
(* again.                                                                  *)
(***************************************************************************)
\* the longest file
MaxLines == 2

\* the lines a file is written from
Lines ==
    { <<Space>>,                                             \* "  "
      <<Hash, Tok("Hex", 1)>>,                               \* "#Hex(1)"
      <<Tok("Hex", 1), Space, Pct, Space, Text>>,            \* "Hex(1) % 100.0"
      <<Tok("HexNAc", 2), Tok("Hex", 1), Pct, Tok("NeuAc", 1)>>,
      <<Space, Tok("NeuAc", 2), Text, Tok("Hex", 3)>>,       \* " NeuAc(2);Hex(3)"
      <<Tok("Hex", 1), Tok("Hex", 3)>>,                      \* a name given twice
      <<Tok("Hex", 1), Tok("Fuc", 1), Pct, Text>>,           \* an unknown residue
      <<Text>>,                                              \* "?!"
      <<Pct, Text>> }                                        \* "% 100.0"

\* the lines inserted by an edit that touches no record
BlankLines == { <<>>, <<Space>> }

CommentLines == { <<Hash>>, <<Hash, Tok("Hex", 2), Pct, Tok("Fuc", 1)>>,
                  <<Space, Hash, Text>> }

\* the texts put behind a "%"
Annotations == { <<>>, <<Space, Text>>, <<Tok("NeuAc", 1)>>, <<Text, Pct, Tok("Fuc", 2)>> }

\* the keyword arguments from_byonic is called with
Cfgs ==
    { [charge_carrier |-> "Na+", charges |-> <<1>>, reducing_end |-> 0,
       modifications |-> <<>>],
      [charge_carrier |-> "H+", charges |-> <<1, 2>>, reducing_end |-> One,
       modifications |-> <<Entry("Hex", <<0, One>>)>>],
      [charge_carrier |-> "Na+", charges |-> <<2, 1>>, reducing_end |-> 0,
       modifications |-> <<Entry("Hex", <<One, 2 * One>>),
                           Entry("HexNAc", <<0, 2 * One>>)>>],
      [charge_carrier |-> "K+", charges |-> <<1>>, reducing_end |-> 0,
       modifications |-> <<Entry("Hex", <<>>), Entry("NeuAc", <<One>>)>>] }

InitBuild ==
    /\ phase = "edit"
    /\ file = <<>>
    /\ cfg \in Cfgs
    /\ db = NoDb
    /\ data = <<>> /\ query = NoQuery /\ result = NoResult
    /\ order = <<>> /\ residues = {} /\ rendered = {}
    /\ gen = NoGen /\ engine = NoEngine
    /\ call = NoCall /\ fs = NoFs
    /\ searcher = NoSearcher

\* a line is written to the end of the file
WriteLine(l) ==
    /\ phase = "edit"
    /\ Len(file) < MaxLines
    /\ file' = Append(file, l)
    /\ UNCHANGED <<phase, cfg, db, data, query, result, order, residues, rendered, gen, engine, call, fs, searcher>>

\* Database.from_byonic(file, **cfg)
CallFromByonic ==
    /\ phase \in {"edit", "noised"}
    /\ db' = FromByonic(file, cfg.charge_carrier, cfg.charges, cfg.reducing_end,
                        cfg.modifications)
    /\ phase' = IF phase = "edit" THEN "built" ELSE "rebuilt"
    /\ UNCHANGED <<file, cfg, data, query, result, order, residues, rendered, gen, engine, call, fs, searcher>>

InsertAt(f, pos, l) == SubSeq(f, 1, pos - 1) \o <<l>> \o SubSeq(f, pos, Len(f))

\* a blank line or a comment line is inserted into the loaded file
InsertNoiseLine(pos, l) ==
    /\ phase \in {"built", "rebuilt", "noised"}
    /\ Len(file) < MaxLines
    /\ pos \in 1..(Len(file) + 1)
    /\ file' = InsertAt(file, pos, l)
    /\ phase' = "noised"
    /\ UNCHANGED <<cfg, db, data, query, result, order, residues, rendered, gen, engine, call, fs, searcher>>

HasPercent(l) == \E i \in 1..Len(l) : l[i] = Pct

\* the text behind the first "%" of a line of the loaded file is replaced
ChangeAnnotation(i, ann) ==
    /\ phase \in {"built", "rebuilt", "noised"}
    /\ i \in 1..Len(file)
    /\ HasPercent(file[i])
    /\ file' = [file EXCEPT ![i] = BeforePercent(file[i]) \o <<Pct>> \o ann]
    /\ file' # file
    /\ phase' = "noised"
    /\ UNCHANGED <<cfg, db, data, query, result, order, residues, rendered, gen, engine, call, fs, searcher>>

NextBuild ==
    \/ \E l \in Lines : WriteLine(l)
    \/ CallFromByonic
    \/ \E pos \in 1..(MaxLines + 1), l \in BlankLines \cup CommentLines : InsertNoiseLine(pos, l)
    \/ \E i \in 1..MaxLines, ann \in Annotations : ChangeAnnotation(i, ann)

SpecBuild == InitBuild /\ [][NextBuild]_vars

(***************************************************************************)
(* Claims about Database.from_byonic (SpecBuild).                          *)
(***************************************************************************)
Built == phase \in {"built", "rebuilt"}

\* the ascending sequence of a finite set of integers
RECURSIVE Ascending(_)
Ascending(S) ==
    IF S = {} THEN <<>>
    ELSE LET m == CHOOSE x \in S : \A y \in S : x <= y
         IN  <<m>> \o Ascending(S \ {m})

\* a record line: not blank and not a comment once the white space around it is gone
IsRecordLine(l) ==
    LET inked == {p \in 1..Len(l) : l[p] # Space}
    IN  inked # {} /\ l[CHOOSE p \in inked : \A q \in inked : p <= q] # Hash

\* the positions of the Name(count) tokens that precede the first "%" of a line
TokenPositions(l) ==
    {p \in 1..Len(l) : l[p].kind = "tok" /\ \A q \in 1..(p - 1) : l[q] # Pct}

\* the residue names of a line, each once, in the order the line first names them
NamesOfLine(l) ==
    LET first == {p \in TokenPositions(l) :
                    \A q \in TokenPositions(l) : q < p => l[q].name # l[p].name}
        pos == Ascending(first)
    IN  [i \in 1..Len(pos) |-> l[pos[i]].name]

\* the count a line gives a residue (that of its last token of the name)
CountOfLine(l, name) ==
    LET ps == {p \in TokenPositions(l) : l[p].name = name}
    IN  l[CHOOSE p \in ps : \A q \in ps : q <= p].count

\* the modification list of a residue: that of the map, or the single choice 0.0
ChoicesOf(modifications, name) ==
    IF \E i \in 1..Len(modifications) : modifications[i].key = name
    THEN modifications[CHOOSE i \in 1..Len(modifications) : modifications[i].key = name].val
    ELSE <<0>>

RECURSIVE ProdLen(_, _, _)
\* the product of the lengths of the lists of names[from..]
ProdLen(modifications, names, from) ==
    IF from > Len(names) THEN 1
    ELSE Len(ChoicesOf(modifications, names[from])) * ProdLen(modifications, names, from + 1)

\* the k-th (from 0) element of the cartesian product in product order, as the
\* set of (residue, count) entries of its composition
ExpectedEntries(l, modifications, k) ==
    LET names == NamesOfLine(l)
    IN  { Entry(Mono(names[i],
                     LET list == ChoicesOf(modifications, names[i])
                     IN  list[((k \div ProdLen(modifications, names, i + 1)) % Len(list)) + 1]),
                CountOfLine(l, names[i])) : i \in 1..Len(names) }

\* what the build is expected to make of the record lines of f, line after line
ExpectedCompositions(f, modifications) ==
    Flatten([n \in 1..Len(f) |->
               IF IsRecordLine(f[n])
               THEN [k \in 1..ProdLen(modifications, NamesOfLine(f[n]), 1) |->
                       [entries |-> ExpectedEntries(f[n], modifications, k - 1),
                        size |-> Len(NamesOfLine(f[n]))]]
               ELSE <<>>])

UnknownResidues(f) ==
    UNION {{f[n][p].name : p \in {q \in TokenPositions(f[n]) :
                                    f[n][q].name \notin Range(DB_MONOSACCHARIDES)}} :
             n \in {m \in 1..Len(f) : IsRecordLine(f[m])}}

\* C7: a load of a file with a record line that names a residue outside the
\* alphabet fails with a DatabaseError naming the line and the residue, and
\* returns no database
C7_UnknownResidueIsDatabaseError ==
    (Built /\ UnknownResidues(file) # {}) =>
        /\ ~db.returned
        /\ db.error.type = "DatabaseError"
        /\ db.error.lines # <<>>
        /\ Range(db.error.residues) \subseteq UnknownResidues(file)
        /\ db.error.residues # <<>>

\* C8: every ion of a returned database has a non-empty composition, and a
\* record line without a Name(count) token makes the load fail
C8_NoEmptyComposition ==
    Built =>
        /\ db.returned => \A i \in 1..Len(db.data) : db.data[i].comp.comp # <<>>
        /\ (\E n \in 1..Len(file) : IsRecordLine(file[n]) /\ TokenPositions(file[n]) = {})
              => ~db.returned

RECURSIVE SumOver(_, _)
\* the sum of residue mass times count over the entries at the positions S
SumOver(S, comp) ==
    IF S = {} THEN 0
    ELSE LET p == CHOOSE x \in S : TRUE
         IN  (DB_MASSES[comp[p].key.name] + comp[p].key.modi) * comp[p].val
             + SumOver(S \ {p}, comp)

\* C9: mz = mass / charge + carrier for every ion of a returned database, the
\* mass being the residues' masses times their counts, the reducing end and water
C9_MzFormula ==
    (Built /\ db.returned) =>
        \A i \in 1..Len(db.data) :
           LET ion == db.data[i]
               mass == SumOver(DOMAIN ion.comp.comp, ion.comp.comp)
                       + ion.comp.reducing_end + DB_MASSES["H20"]
           IN  /\ CompositionMass(ion.comp) = mass
               /\ ion.charge * (DbIonMz(ion) - DB_MASSES[ion.charge_carrier]) = mass

\* C9 witness: a doubly charged ion with a modified residue and a reducing end
C9_Witness ==
    /\ Built /\ db.returned
    /\ \E i \in 1..Len(db.data) :
          /\ db.data[i].charge = 2
          /\ db.data[i].comp.reducing_end > 0
          /\ \E j \in 1..Len(db.data[i].comp.comp) : db.data[i].comp.comp[j].key.modi # 0

\* C10: loading the file again after edits that touch no record (blank lines
\* and comment lines inserted, the text behind "%" changed) gives the same
\* outcome and the same list of ions
C10_NoiseChangesNothing ==
    [][(phase = "noised" /\ phase' = "rebuilt") =>
          (db'.returned = db.returned /\ db'.data = db.data)]_vars

\* C10 witness: a database with ions was loaded again from a file that by now
\* holds a comment line with a token in it
C10_Witness ==
    /\ phase = "rebuilt" /\ db.returned /\ db.data # <<>>
    /\ \E n \in 1..Len(file) :
          ~IsRecordLine(file[n]) /\ \E p \in 1..Len(file[n]) : file[n][p].kind = "tok"

(***************************************************************************)
(* Searching.  The program searches one engine (api.run): a Database or a  *)
(* DeNovoEngine.                                                           *)
(***************************************************************************)
\* the longest Database.data
MaxIons == 3

\* the ions a database is made of
DbIons ==
    { DbIon(Composition(<<Entry(Mono("Hex", 0), 1)>>, 0), 1, "Na+"),
      DbIon(Composition(<<Entry(Mono("Hex", 2 * One), 1)>>, 0), 1, "Na+"),
      DbIon(Composition(<<Entry(Mono("Hex", 0), 1)>>, 6 * One), 1, "Na+"),
      DbIon(Composition(<<Entry(Mono("HexNAc", 0), 1), Entry(Mono("Hex", One), 2)>>, 0), 2, "H+") }

\* all sequences over S of length n
RECURSIVE SeqsOfLen(_, _)
SeqsOfLen(S, n) ==
    IF n = 0 THEN {<<>>}
    ELSE {Append(q, x) : q \in SeqsOfLen(S, n - 1), x \in S}

\* the offsets of a query from the m/z of a known ion, and the tolerances
Offsets == {0, One}

Tolerances == {0, One, 5 * One}

\* the engines searched
Engines ==
    { NewEngine("Na+", 0,
                <<Entry("Hex", <<0, One>>), Entry("HexNAc", <<0>>)>>,
                <<Entry("Hex", <<0, 2>>), Entry("HexNAc", <<0, 1>>)>>,
                <<Entry("Ac", 1)>>),
      NewEngine("H+", One,
                <<Entry("HexNAc", <<0>>), Entry("Hex", <<2 * One, 0>>)>>,
                <<Entry("Hex", <<1, 2>>), Entry("HexNAc", <<0, 0>>)>>,
                <<Entry("Ac", 0), Entry("P", 2)>>),
      \* a modification that takes the whole mass of HexNAc away
      NewEngine("Na+", 0,
                <<Entry("Hex", <<0>>), Entry("HexNAc", <<-MASSES["HexNAc"]>>)>>,
                <<Entry("Hex", <<0, 2>>), Entry("HexNAc", <<0, 2>>)>>,
                <<>>) }

\* the compositions whose m/z the de novo queries are taken around
QueryComps ==
    { <<>>,
      <<Entry(Mono("Hex", 0), 1)>>,
      <<Entry(Mono("Hex", 0), 2)>>,
      <<Entry(Mono("Hex", 0), 1), Entry(Mono("HexNAc", 0), 1)>>,
      <<Entry(Mono("Hex", 0), 1), Entry(Mono("Ac", 0), 1)>>,
      <<Entry(Mono("Hex", 2 * One), 1), Entry(Mono("P", 0), 1)>> }

InitSearch ==
    /\ phase \in {"database", "denovo"}
    /\ IF phase = "database"
       THEN /\ data \in UNION {SeqsOfLen(DbIons, n) : n \in 0..MaxIons}
            /\ engine = NoEngine
       ELSE /\ data = <<>>
            /\ engine \in {e \in Engines : e.error = NoError}
    /\ query = NoQuery /\ result = NoResult
    /\ file = <<>> /\ cfg = NoCfg /\ db = NoDb
    /\ order = <<>> /\ residues = {} /\ rendered = {}
    /\ gen = NoGen
    /\ call = NoCall /\ fs = NoFs
    /\ searcher = NoSearcher

\* a variant that sorts Database.data itself (self.data.sort) by the distance
DataAfterSearch_SortedInPlace(d, mz, tol) ==
    LET keyed == [i \in 1..Len(d) |-> [sortkey |-> Abs(DbIonMz(d[i]) - mz), item |-> d[i]]]
        s == Sorted(keyed)
    IN  [i \in 1..Len(s) |-> s[i].item]

\* Database.data after search(mz, tol): the list comprehension and sorted()
\* build new lists and self.data is not written
DataAfterSearch(d, mz, tol) == d

\* the engine after search(mz, tol): search reads the attributes, and
\* search_closest sorts the list that search has just built
EngineAfterSearch(e, mz, tol) == e

\* Database.search(mz, tol)
DatabaseSearch(mz, tol) ==
    /\ phase = "database"
    /\ query' = [mz |-> mz, tol |-> tol]
    /\ result' = [op |-> "search", ions |-> DbSearch(data, mz, tol), closest |-> None,
                  deep |-> FALSE]
    /\ data' = DataAfterSearch(data, mz, tol)
    /\ UNCHANGED <<phase, file, cfg, db, order, residues, rendered, gen, engine, call, fs, searcher>>

\* Database.search_closest(mz, tol)
DatabaseSearchClosest(mz, tol) ==
    /\ phase = "database"
    /\ query' = [mz |-> mz, tol |-> tol]
    /\ result' = [op |-> "search_closest", ions |-> <<>>,
                  closest |-> DbSearchClosest(data, mz, tol), deep |-> FALSE]
    /\ data' = DataAfterSearch(data, mz, tol)
    /\ UNCHANGED <<phase, file, cfg, db, order, residues, rendered, gen, engine, call, fs, searcher>>

\* DeNovoEngine.search(mz, tol); result.deep: the call ended with a
\* RecursionError and returned nothing
EngineSearch(mz, tol) ==
    /\ phase = "denovo"
    /\ query' = [mz |-> mz, tol |-> tol]
    /\ LET r == DeNovoSearch(engine, mz, tol)
       IN  result' = [op |-> "search", ions |-> IF r.deep THEN <<>> ELSE r.ions,
                      closest |-> None, deep |-> r.deep]
    /\ engine' = EngineAfterSearch(engine, mz, tol)
    /\ UNCHANGED <<phase, file, cfg, db, data, order, residues, rendered, gen, call, fs, searcher>>

\* DeNovoEngine.search_closest(mz, tol)
EngineSearchClosest(mz, tol) ==
    /\ phase = "denovo"
    /\ query' = [mz |-> mz, tol |-> tol]
    /\ result' = [op |-> "search_closest", ions |-> <<>>,
                  closest |-> IF DeNovoSearch(engine, mz, tol).deep THEN None
                              ELSE DeNovoSearchClosest(engine, mz, tol),
                  deep |-> DeNovoSearch(engine, mz, tol).deep]
    /\ engine' = EngineAfterSearch(engine, mz, tol)
    /\ UNCHANGED <<phase, file, cfg, db, data, order, residues, rendered, gen, call, fs, searcher>>

\* the queries put to a database: around the m/z of a known ion
DbQueries == {DbIonMz(ion) + d : ion \in DbIons, d \in Offsets}

\* the queries put to the engine: around the m/z of a composition
EngineQueries ==
    IF phase = "denovo"
    THEN {IonMz(Ion(c, engine.reducing_end, engine.charge_carrier)) + d :
             c \in QueryComps, d \in Offsets}
    ELSE {}

NextSearch ==
    \/ \E mz \in DbQueries, tol \in Tolerances : DatabaseSearch(mz, tol)
    \/ \E mz \in DbQueries, tol \in Tolerances : DatabaseSearchClosest(mz, tol)
    \/ \E mz \in EngineQueries, tol \in Tolerances : EngineSearch(mz, tol)
    \/ \E mz \in EngineQueries, tol \in Tolerances : EngineSearchClosest(mz, tol)

SpecSearch == InitSearch /\ [][NextSearch]_vars

(***************************************************************************)
(* Claims about search and search_closest (SpecSearch).                    *)
(***************************************************************************)
\* how often x occurs in the sequence q
Occurrences(q, x) == Cardinality({i \in 1..Len(q) : q[i] = x})

\* the distance of a database ion from the query
DbDistance(ion) == Abs(DbIonMz(ion) - query.mz)

\* the distance of a de novo ion from the query
Distance(ion) == Abs(IonMz(ion) - query.mz)

\* C1: Database.search returns the candidates within the window, each as often
\* as Database.data holds it, and no other
C1_SearchReturnsWindow ==
    (phase = "database" /\ result.op = "search") =>
        \A x \in Range(data) \cup Range(result.ions) :
           Occurrences(result.ions, x) =
              IF DbDistance(x) <= query.tol THEN Occurrences(data, x) ELSE 0

\* C1 witness: a search returned some of the ions and left others out, one of
\* the returned ions lying at the very end of the window
C1_Witness ==
    /\ phase = "database" /\ result.op = "search"
    /\ result.ions # <<>> /\ Len(result.ions) < Len(data)
    /\ query.tol > 0
    /\ \E i \in 1..Len(result.ions) : DbDistance(result.ions[i]) = query.tol

\* C2: search_closest returns None exactly when search finds nothing, and
\* otherwise one of the ions search returns, none of which is closer
C2_ClosestIsMinimal ==
    (result.op = "search_closest" /\ ~result.deep) =>
        IF phase = "database"
        THEN LET found == DbSearch(data, query.mz, query.tol)
             IN  /\ ~result.closest.some <=> found = <<>>
                 /\ result.closest.some =>
                       /\ result.closest.ion[1] \in Range(found)
                       /\ \A y \in Range(found) :
                             DbDistance(result.closest.ion[1]) <= DbDistance(y)
        ELSE LET found == DeNovoSearch(engine, query.mz, query.tol).ions
             IN  /\ ~result.closest.some <=> found = <<>>
                 /\ result.closest.some =>
                       /\ result.closest.ion[1] \in Range(found)
                       /\ \A y \in Range(found) :
                             Distance(result.closest.ion[1]) <= Distance(y)

\* C2 witness: the de novo engine found several ions and the closest one is
\* not the first that search found
C2_Witness ==
    /\ phase = "denovo" /\ result.op = "search_closest" /\ ~result.deep
    /\ result.closest.some
    /\ LET found == DeNovoSearch(engine, query.mz, query.tol).ions
       IN  Len(found) > 1 /\ Distance(found[1]) > Distance(result.closest.ion[1])

\* C3 as claimed: of two consecutive ions of a search result the earlier one
\* is strictly closer to the query
C3_StrictlyAscending ==
    (phase = "database" /\ result.op = "search") =>
        \A i \in 1..(Len(result.ions) - 1) :
           DbDistance(result.ions[i]) < DbDistance(result.ions[i + 1])

\* C3 amended: of two consecutive ions of a search result the earlier one is
\* at least as close to the query, so that no ion is closer than the first
C3_Ascending ==
    (phase = "database" /\ result.op = "search") =>
        /\ \A i \in 1..(Len(result.ions) - 1) :
              DbDistance(result.ions[i]) <= DbDistance(result.ions[i + 1])
        /\ \A x \in Range(data) :
              DbDistance(x) <= query.tol => DbDistance(result.ions[1]) <= DbDistance(x)

\* C3 witness: a result of three ions, two of them different ions at the same
\* distance, which Database.data holds in another order
C3_Witness ==
    /\ phase = "database" /\ result.op = "search"
    /\ Len(result.ions) = 3 /\ result.ions # data
    /\ \E i \in 1..2 : /\ result.ions[i] # result.ions[i + 1]
                       /\ DbDistance(result.ions[i]) = DbDistance(result.ions[i + 1])
    /\ DbDistance(result.ions[1]) < DbDistance(result.ions[3])

\* C13: the ions of a search result that lie at the same distance from the
\* query are the ions of Database.data at that distance, in the order of
\* Database.data
C13_TiesInInsertionOrder ==
    (phase = "database" /\ result.op = "search") =>
        \A x \in Range(result.ions) :
           SelectSeq(result.ions, LAMBDA y : DbDistance(y) = DbDistance(x))
              = SelectSeq(data, LAMBDA y : DbDistance(y) = DbDistance(x))

\* C13 witness: two different ions at the same distance were returned behind
\* a closer ion that Database.data holds behind them
C13_Witness ==
    /\ phase = "database" /\ result.op = "search"
    /\ Len(data) = 3 /\ Len(result.ions) = 3
    /\ result.ions = <<data[3], data[1], data[2]>>
    /\ data[1] # data[2]
    /\ DbDistance(data[1]) = DbDistance(data[2])
    /\ DbDistance(data[3]) < DbDistance(data[1])

PositiveCandidates ==
    \A i \in 1..Len(engine.mono_candidates) : MonoMass(engine.mono_candidates[i]) > 0

\* a search over strictly positive candidate masses stays within MaxDepth frames
SearchNotCut == PositiveCandidates => ~result.deep

\* C19: every search of the de novo engine, whatever its configuration and
\* the query, ends by returning: the partial sums grow until the recursion
\* stops by itself, and no call ends in the recursion limit
C19_SearchTerminates ==
    (phase = "denovo" /\ result.op # "") => ~result.deep

(***************************************************************************)
(* Constructing compositions: the same residues are handed to the          *)
(* constructors of database.Composition and glycan.Ion in different        *)
(* insertion orders, and each object is rendered with str().               *)
(***************************************************************************)
\* the most residues of a composition
MaxResidues == 3

\* the residues compositions are made of
CompMonos == {Mono("Hex", 0), Mono("Hex", One), Mono("HexNAc", 0), Mono("NeuAc", One)}

\* the multisets: a count of 1 or 2 for each of up to MaxResidues residues
ResidueSets ==
    {S \in SUBSET {Entry(m, c) : m \in CompMonos, c \in 1..2} :
        /\ S # {} /\ Cardinality(S) <= MaxResidues
        /\ \A a, b \in S : a.key = b.key => a = b}

\* the orders in which the entries of S can be inserted
Orderings(S) == {q \in SeqsOfLen(S, Cardinality(S)) : Range(q) = S}

InitComp ==
    /\ phase = "construct"
    /\ residues \in ResidueSets
    /\ order = <<>> /\ rendered = {}
    /\ file = <<>> /\ cfg = NoCfg /\ db = NoDb
    /\ data = <<>> /\ query = NoQuery /\ result = NoResult
    /\ gen = NoGen /\ engine = NoEngine
    /\ call = NoCall /\ fs = NoFs
    /\ searcher = NoSearcher

\* str(Composition(comp=dict(perm)))
NewComposition(perm) ==
    /\ phase = "construct"
    /\ order' = perm
    /\ rendered' = rendered \cup
          {[cls |-> "Composition", comp |-> Composition(perm, 0).comp,
            str |-> CompositionStr(Composition(perm, 0))]}
    /\ UNCHANGED <<phase, file, cfg, db, data, query, result, residues, gen, engine, call, fs, searcher>>

\* str(Ion(dict(perm), 0.0, "Na+"))
NewIon(perm) ==
    /\ phase = "construct"
    /\ order' = perm
    /\ rendered' = rendered \cup
          {[cls |-> "Ion", comp |-> Ion(perm, 0, "Na+").comp,
            str |-> IonStr(Ion(perm, 0, "Na+"))]}
    /\ UNCHANGED <<phase, file, cfg, db, data, query, result, residues, gen, engine, call, fs, searcher>>

NextComp ==
    \/ \E perm \in Orderings(residues) : NewComposition(perm)
    \/ \E perm \in Orderings(residues) : NewIon(perm)

SpecComp == InitComp /\ [][NextComp]_vars

\* C4: all compositions (all ions) made of the same residues render the same
\* string, whatever the insertion order
C4_StringIgnoresInsertionOrder ==
    \A a, b \in rendered : a.cls = b.cls => a.str = b.str

\* the residue alphabet of a class
AlphabetOf(cls) == IF cls = "Composition" THEN DB_MONOSACCHARIDES ELSE MONOSACCHARIDES

\* C11: in every Composition and Ion constructed, of two consecutive residues
\* the earlier one has the earlier name in the residue alphabet or, the names
\* being the same, the smaller modification mass
C11_OrderedByNameThenModification ==
    \A r \in rendered :
       \A i \in 1..(Len(r.comp) - 1) :
          LET a == r.comp[i].key
              b == r.comp[i + 1].key
          IN  \/ IndexOf(AlphabetOf(r.cls), a.name) < IndexOf(AlphabetOf(r.cls), b.name)
              \/ a.name = b.name /\ a.modi < b.modi

(***************************************************************************)
(* Generating ions: glycan.generate_ion is called once.                    *)
(***************************************************************************)
\* the largest maximum count of a global modification
MaxGlobalCount == 2

\* the compositions (name -> count) ions are generated from
GenComps ==
    { <<Entry("Hex", 1), Entry("HexNAc", 2)>>,
      <<Entry("HexNAc", 2), Entry("Hex", 1)>>,
      <<Entry("NeuAc", 1)>>,
      <<Entry("Hex", 1), Entry("Ac", 1)>> }

GenModifications ==
    { <<>>,
      <<Entry("Hex", <<0, One>>)>>,
      <<Entry("HexNAc", <<0, One>>)>>,
      <<Entry("HexNAc", <<One>>), Entry("Hex", <<One, 2 * One>>)>> }

\* the global modification constraints (name -> maximum count)
GenGlobals ==
    {<<>>}
    \cup {<<Entry(k, m)>> : k \in {"Ac", "P"}, m \in 0..MaxGlobalCount}
    \cup {<<Entry(k[1], m1), Entry(k[2], m2)>> :
             k \in {<<"Ac", "P">>, <<"P", "Ac">>},
             m1 \in 0..MaxGlobalCount, m2 \in 0..MaxGlobalCount}

InitGen ==
    /\ phase = "generate"
    /\ gen \in {[NoGen EXCEPT !.comp = c, !.modifications = m,
                              !.global_mod_constraints = g] :
                  c \in GenComps, m \in GenModifications, g \in GenGlobals}
    /\ file = <<>> /\ cfg = NoCfg /\ db = NoDb
    /\ data = <<>> /\ query = NoQuery /\ result = NoResult
    /\ order = <<>> /\ residues = {} /\ rendered = {}
    /\ engine = NoEngine
    /\ call = NoCall /\ fs = NoFs
    /\ searcher = NoSearcher

\* list(generate_ion(comp, 0.0, "Na+", modifications, global_mod_constraints))
CallGenerateIon ==
    /\ phase = "generate"
    /\ ~gen.called
    /\ LET out == GenerateIon(gen.comp, 0, "Na+", gen.modifications,
                              gen.global_mod_constraints)
       IN  gen' = [gen EXCEPT !.called = TRUE, !.error = out.error, !.ions = out.ions]
    /\ UNCHANGED <<phase, file, cfg, db, data, query, result, order, residues, rendered, engine, call, fs, searcher>>

NextGen == CallGenerateIon

SpecGen == InitGen /\ [][NextGen]_vars

\* the names of the configured global modifications
GlobalNames == Range(Keys(gen.global_mod_constraints))

\* the vectors of counts: 0 <= c[k] <= max_k for each global modification k
CountVectors ==
    {c \in [GlobalNames -> 0..MaxGlobalCount] :
        \A i \in 1..Len(gen.global_mod_constraints) :
           c[gen.global_mod_constraints[i].key] <= gen.global_mod_constraints[i].val}

\* the ion holds pseudo-residue k with count c[k] where c[k] > 0, and does not
\* hold it where c[k] = 0
CarriesVector(ion, c) ==
    \A k \in GlobalNames :
       IF c[k] > 0
       THEN Entry(Mono(k, 0), c[k]) \in Range(ion.comp)
       ELSE \A j \in 1..Len(ion.comp) : ion.comp[j].key # Mono(k, 0)

\* what an ion holds besides the pseudo-residues of the global modifications
Unextended(ion) == {e \in Range(ion.comp) : ~(e.key.name \in GlobalNames /\ e.key.modi = 0)}

\* the ions of gen, cut into one block per modification combination, hold in
\* each block exactly one ion per vector of counts, all of a block extend the
\* same composition, and the ion of the all-zero vector is that composition
OneIonPerVector ==
    LET names == Keys(gen.comp)
        combos == ProdLen(gen.modifications, names, 1)
        size == Cardinality(CountVectors)
        block(b) == {i \in 1..Len(gen.ions) : (i - 1) \div size = b - 1}
    IN  /\ Len(gen.ions) = combos * size
        /\ \A b \in 1..combos :
              /\ \A c \in CountVectors :
                    Cardinality({i \in block(b) : CarriesVector(gen.ions[i], c)}) = 1
              /\ \A i, j \in block(b) : Unextended(gen.ions[i]) = Unextended(gen.ions[j])
              /\ \A i \in block(b) :
                    /\ Cardinality(Unextended(gen.ions[i])) = Len(names)
                    /\ CarriesVector(gen.ions[i], [k \in GlobalNames |-> 0])
                          => Range(gen.ions[i].comp) = Unextended(gen.ions[i])

\* with {"Ac": 1} and no modification, Hex(1)HexNAc(2) expands to
\* Hex(1)HexNAc(2) and Hex(1)HexNAc(2)Ac(1)
AcExample ==
    (/\ gen.comp = <<Entry("Hex", 1), Entry("HexNAc", 2)>>
     /\ gen.modifications = <<>>
     /\ gen.global_mod_constraints = <<Entry("Ac", 1)>>) =>
        [i \in 1..Len(gen.ions) |-> IonStr(gen.ions[i])] =
           << <<"Hex", "(", "1", ")", "HexNAc", "(", "2", ")">>,
              <<"Hex", "(", "1", ")", "HexNAc", "(", "2", ")", "Ac", "(", "1", ")">> >>

\* C6 as claimed: for every composition, generate_ion yields exactly one ion
\* per modification combination and vector of counts of the global
\* modifications, holding pseudo-residue k c[k] times if c[k] > 0 and not at
\* all if c[k] = 0
C6_OneIonPerCountVector ==
    (gen.called /\ gen.error = NoError) => (OneIonPerVector /\ AcExample)

\* C6 amended: the same, for compositions that hold no residue named like one
\* of the configured global modifications
C6_OneIonPerCountVectorOfOtherNames ==
    (gen.called /\ gen.error = NoError /\ Range(Keys(gen.comp)) \cap GlobalNames = {})
        => (OneIonPerVector /\ AcExample)

\* C6 witness: two modification combinations were each expanded over the six
\* vectors of two global modifications
C6_Witness ==
    /\ gen.called /\ gen.error = NoError
    /\ Range(Keys(gen.comp)) \cap GlobalNames = {}
    /\ ProdLen(gen.modifications, Keys(gen.comp), 1) = 2
    /\ Cardinality(CountVectors) = 6
    /\ Len(gen.ions) = 12

RECURSIVE SumFn(_, _)
\* the sum of f over the set S
SumFn(f, S) ==
    IF S = {} THEN 0
    ELSE LET x == CHOOSE y \in S : TRUE IN f[x] + SumFn(f, S \ {x})

\* the multisets of size n over the modification masses mods, each as the set
\* of (residue, count) entries of the residue name
MultisetsOver(name, n, mods) ==
    { {Entry(Mono(name, m), f[m]) : m \in {x \in Range(mods) : f[x] > 0}} :
         f \in {g \in [Range(mods) -> 0..n] : SumFn(g, Range(mods)) = n} }

RECURSIVE PerInstance(_, _, _)
\* the compositions in which every instance of every residue of comp[from..]
\* has chosen one of the modification masses of its name
PerInstance(comp, modifications, from) ==
    IF from > Len(comp) THEN {{}}
    ELSE {a \cup b :
            a \in MultisetsOver(comp[from].key, comp[from].val,
                                DictGetDefault(modifications, comp[from].key, <<0>>)),
            b \in PerInstance(comp, modifications, from + 1)}

\* C12: without global modifications, generate_ion yields one ion for every
\* choice of a modification mass per residue instance: a residue with count n
\* and k modification masses gives every multiset of size n over the k masses
C12_ModificationPerInstance ==
    (gen.called /\ gen.error = NoError /\ gen.global_mod_constraints = <<>>) =>
        /\ {Range(gen.ions[i].comp) : i \in 1..Len(gen.ions)}
              = PerInstance(gen.comp, gen.modifications, 1)
        /\ Len(gen.ions) = Cardinality(PerInstance(gen.comp, gen.modifications, 1))

(***************************************************************************)
(* The static methods of DeNovoEngine, each called once on its own         *)
(* arguments.  The floats of _combination_sum are counted in tenths.       *)
(***************************************************************************)
\* the candidate lists handed to _combination_sum (1, 2, 3 are 10, 20, 30)
SumCandidates ==
    { <<10, 20, 30>>, <<10, 20>>, <<20, 10>>, <<30, 10, 20>>, <<20, 20>>, <<30>>, <<>>,
      <<10, 0>>, <<-10, 30>> }

\* the targets (3, 4, 1.5, 0 and a negative one) and the tolerances (0, 0.1, 1)
SumTargets == {-10, 0, 15, 30, 40}

SumTols == {0, 1, 10}

\* the compositions handed to _filter_constrains
FilterComps ==
    { <<Entry(Mono("Hex", 0), 1), Entry(Mono("HexNAc", 0), 2)>>,
      <<Entry(Mono("Hex", 0), 2), Entry(Mono("HexNAc", 0), 3)>>,
      <<Entry(Mono("Hex", 0), 0), Entry(Mono("HexNAc", 0), 2)>>,
      <<Entry(Mono("Hex", 0), 1), Entry(Mono("HexNAc", 0), 1)>>,
      <<Entry(Mono("Hex", 0), 2), Entry(Mono("HexNAc", 0), 4)>>,
      <<Entry(Mono("Hex", 0), 1), Entry(Mono("Hex", One), 2), Entry(Mono("HexNAc", 0), 2)>>,
      <<Entry(Mono("HexNAc", 0), 2), Entry(Mono("Hex", One), 1), Entry(Mono("dHex", 0), 5)>>,
      <<>> }

\* the comps of test_filter_constraints, A and B being Hex and HexNAc
TestFilterComps ==
    << <<Entry(Mono("Hex", 0), 1), Entry(Mono("HexNAc", 0), 2)>>,
       <<Entry(Mono("Hex", 0), 2), Entry(Mono("HexNAc", 0), 3)>>,
       <<Entry(Mono("Hex", 0), 0), Entry(Mono("HexNAc", 0), 2)>>,
       <<Entry(Mono("Hex", 0), 1), Entry(Mono("HexNAc", 0), 1)>>,
       <<Entry(Mono("Hex", 0), 2), Entry(Mono("HexNAc", 0), 4)>>,
       <<Entry(Mono("Hex", 0), 1), Entry(Mono("Hex", One), 2), Entry(Mono("HexNAc", 0), 2)>> >>

\* the constraints (name -> (min, max)) handed to _filter_constrains
FilterConstraints ==
    { <<Entry("Hex", <<1, 2>>), Entry("HexNAc", <<2, 3>>)>>,
      <<Entry("HexNAc", <<2, 3>>)>>,
      <<Entry("Hex", <<0, 3>>), Entry("NeuAc", <<0, 1>>)>>,
      <<Entry("Hex", <<1, 3>>), Entry("NeuAc", <<1, 1>>)>>,
      <<>> }

InitStatic ==
    /\ phase = "static"
    /\ call \in {[NoCall EXCEPT !.fn = "_combination_sum", !.target = t, !.tol = tol,
                                 !.candidates = c] :
                    t \in SumTargets, tol \in SumTols, c \in SumCandidates}
               \cup
               {[NoCall EXCEPT !.fn = "_filter_constrains", !.comps = cs,
                                 !.constraints = k] :
                    cs \in {TestFilterComps} \cup SeqsOfLen(FilterComps, 1)
                             \cup SeqsOfLen(FilterComps, 2),
                    k \in FilterConstraints}
    /\ file = <<>> /\ cfg = NoCfg /\ db = NoDb
    /\ data = <<>> /\ query = NoQuery /\ result = NoResult
    /\ order = <<>> /\ residues = {} /\ rendered = {}
    /\ gen = NoGen /\ engine = NoEngine /\ fs = NoFs
    /\ searcher = NoSearcher

\* DeNovoEngine._combination_sum(target, tol, candidates); call.deep: the call
\* ended with a RecursionError and returned nothing
CallCombinationSum ==
    /\ phase = "static"
    /\ call.fn = "_combination_sum" /\ ~call.called
    /\ LET r == CombinationSum(call.target, call.tol, call.candidates)
       IN  call' = [call EXCEPT !.called = TRUE, !.deep = r.deep,
                                !.out = IF r.deep THEN <<>> ELSE r.solutions]
    /\ UNCHANGED <<phase, file, cfg, db, data, query, result, order, residues, rendered, gen, engine, fs, searcher>>

\* DeNovoEngine._filter_constrains(comps, constraints)
CallFilterConstrains ==
    /\ phase = "static"
    /\ call.fn = "_filter_constrains" /\ ~call.called
    /\ call' = [call EXCEPT !.called = TRUE,
                            !.out = FilterConstrains(call.comps, call.constraints)]
    /\ UNCHANGED <<phase, file, cfg, db, data, query, result, order, residues, rendered, gen, engine, fs, searcher>>

NextStatic == CallCombinationSum \/ CallFilterConstrains

SpecStatic == InitStatic /\ [][NextStatic]_vars

(***************************************************************************)
(* Claims about _combination_sum and _filter_constrains (SpecStatic).      *)
(***************************************************************************)
\* the longest index sequence the claims range over: no sum of more positive
\* candidates of the model lies within a window of the model
MaxPath == 5

NonDecreasing(s) == \A i \in 1..(Len(s) - 1) : s[i] <= s[i + 1]

\* the non-decreasing sequences of 0-based indices into n candidates
IndexPaths(n) ==
    {s \in UNION {SeqsOfLen(0..(n - 1), k) : k \in 0..MaxPath} : NonDecreasing(s)}

\* the sum of the candidates a path names
PathSum(s) == SumSeq([i \in 1..Len(s) |-> call.candidates[s[i] + 1]])

InWindow(x) == call.target - call.tol <= x /\ x <= call.target + call.tol

\* how often a path names each index: the multiset of its indices
CountsOf(s) ==
    [i \in 0..(Len(call.candidates) - 1) |-> Cardinality({p \in 1..Len(s) : s[p] = i})]

\* s comes before t in lexicographic order
LexLess(s, t) ==
    \/ Len(s) < Len(t) /\ s = SubSeq(t, 1, Len(s))
    \/ \E k \in 1..Len(s) :
          /\ k <= Len(t) /\ s[k] < t[k]
          /\ \A j \in 1..(k - 1) : s[j] = t[j]

\* _combination_sum was called and has returned
SumReturned ==
    phase = "static" /\ call.fn = "_combination_sum" /\ call.called /\ ~call.deep

\* the paths whose sum lies in the window and none of whose proper prefixes
\* has reached target - tol
StoppedPaths ==
    {s \in IndexPaths(Len(call.candidates)) :
        /\ InWindow(PathSum(s))
        /\ \A k \in 0..(Len(s) - 1) : PathSum(SubSeq(s, 1, k)) < call.target - call.tol}

\* the results for candidates [1, 2, 3] and tol 0.1
SumExamples ==
    (call.candidates = <<10, 20, 30>> /\ call.tol = 1) =>
        /\ call.target = 30 => call.out = << <<0, 0, 0>>, <<0, 1>>, <<2>> >>
        /\ call.target = 40 => call.out = << <<0, 0, 0, 0>>, <<0, 0, 1>>, <<0, 2>>, <<1, 1>> >>
        /\ call.target = 15 => call.out = <<>>

C17_NoMissedSolution ==
    SumReturned =>
        \A s \in IndexPaths(Len(call.candidates)) :
           InWindow(PathSum(s)) =>
              \E i \in 1..Len(call.out) : CountsOf(call.out[i]) = CountsOf(s)

\* C18: every solution returned is a non-decreasing index sequence and no two
\* solutions are the same multiset of indices
C18_NoDuplicateSolution ==
    SumReturned =>
        /\ \A i \in 1..Len(call.out) : NonDecreasing(call.out[i])
        /\ \A i, j \in 1..Len(call.out) :
              i # j => CountsOf(call.out[i]) # CountsOf(call.out[j])

\* C18 witness: several solutions were returned, one of them naming two
\* different indices, so that a permutation of it exists
C18_Witness ==
    /\ SumReturned
    /\ Len(call.out) >= 3
    /\ \E i \in 1..Len(call.out) :
          Len(call.out[i]) >= 2 /\ call.out[i][1] < call.out[i][Len(call.out[i])]

\* the count of a name in a composition, added up over the residues of that
\* name whatever their modification
AggregatedCount(comp, name) ==
    SumFn([i \in DOMAIN comp |-> IF comp[i].key.name = name THEN comp[i].val ELSE 0],
          DOMAIN comp)

\* every constrained name has its aggregated count in [min, max]
MeetsConstraints(comp) ==
    \A i \in 1..Len(call.constraints) :
       LET n == AggregatedCount(comp, call.constraints[i].key)
       IN  call.constraints[i].val[1] <= n /\ n <= call.constraints[i].val[2]

\* C20: _filter_constrains keeps, in input order, exactly the compositions
\* whose aggregated count of every constrained name lies in [min, max]; with
\* {A: (1, 2), B: (2, 3)} it keeps A1B2 and A2B3 of the six example compositions
C20_FilterKeepsWithinConstraints ==
    (phase = "static" /\ call.fn = "_filter_constrains" /\ call.called) =>
        /\ call.out = SelectSeq(call.comps, MeetsConstraints)
        /\ (/\ call.comps = TestFilterComps
            /\ call.constraints = <<Entry("Hex", <<1, 2>>), Entry("HexNAc", <<2, 3>>)>>)
              => call.out = <<TestFilterComps[1], TestFilterComps[2]>>

\* C20 witness: the six example compositions were filtered and two were kept
C20_Witness ==
    /\ phase = "static" /\ call.fn = "_filter_constrains" /\ call.called
    /\ call.comps = TestFilterComps
    /\ call.constraints = <<Entry("Hex", <<1, 2>>), Entry("HexNAc", <<2, 3>>)>>
    /\ Len(call.out) = 2

(***************************************************************************)
(* The api on the file system.  fs.home is the .glyhunter directory        *)
(* ("absent" or "dir"), fs.db and fs.config the content of its two files   *)
(* ("" when the file does not exist), fs.out the output directories that   *)
(* exist: "default" is <input stem>_glyhunter_results, "given" a path the  *)
(* caller names.  fs.op, fs.error and fs.returned are the last call, the   *)
(* exception it raised and the path it returned; fs.existed tells whether  *)
(* the directory the call is about existed before the call.                *)
(***************************************************************************)
OutputPaths == {"default", "given"}

\* a variant that overwrites the files whatever force is
InitiateOutcome_Overwrites(f, force) ==
    [f EXCEPT !.op = "initiate", !.force = force, !.path = "", !.confirm = FALSE,
              !.existed = (f.home = "dir"), !.returned = "",
              !.home = "dir", !.db = "default", !.config = "default", !.error = ""]

\* api.initiate(force): mkdir, FileExistsError unless force, then both files
\* written from the packaged resources
InitiateOutcome(f, force) ==
    LET g == [f EXCEPT !.op = "initiate", !.force = force, !.path = "", !.confirm = FALSE,
                       !.existed = (f.home = "dir"), !.returned = ""]
    IN  IF f.home = "dir" /\ ~force
        THEN [g EXCEPT !.error = "FileExistsError"]
        ELSE [g EXCEPT !.home = "dir", !.db = "default", !.config = "default",
                       !.error = ""]

\* utils.output_directory: the default path, created if it does not exist
OutputDirectory(out) == out \cup {"default"}

\* api.run(input_path, output_path) with the default configuration and
\* database: the output directory, load_config, then the search engine, whose
\* constructor is handed a keyword it does not take
RunOutcome(f, output) ==
    LET g == [f EXCEPT !.op = "run", !.force = FALSE, !.path = output, !.confirm = FALSE,
                       !.existed = (output \in f.out), !.returned = ""]
        out1 == IF output = "default" THEN OutputDirectory(f.out) ELSE f.out
    IN  IF output \in out1
        THEN [g EXCEPT !.out = out1, !.error = "FileExistsError"]
        ELSE IF f.home # "dir" \/ f.config = ""
        THEN [g EXCEPT !.out = out1 \cup {output}, !.error = "FileNotFoundError"]
        ELSE [g EXCEPT !.out = out1 \cup {output}, !.error = "TypeError"]

\* cli.run: api.run and, on FileExistsError, the confirmation, shutil.rmtree
\* and the second api.run
CliRunOutcome(f, output, confirm) ==
    LET first == RunOutcome(f, output)
        second == RunOutcome([first EXCEPT !.out = first.out \ {output}], output)
    IN  IF first.error # "FileExistsError"
        THEN [first EXCEPT !.op = "cli_run"]
        ELSE IF ~confirm
        THEN [first EXCEPT !.op = "cli_run", !.error = "Abort"]
        ELSE [second EXCEPT !.op = "cli_run", !.confirm = TRUE,
                            !.existed = first.existed]

InitApi ==
    /\ phase = "api"
    /\ fs \in {[NoFs EXCEPT !.home = h, !.db = d, !.config = c, !.out = o] :
                  h \in {"absent", "dir"}, d \in {"", "user"}, c \in {"", "user"},
                  o \in SUBSET OutputPaths}
    /\ fs.home = "absent" => fs.db = "" /\ fs.config = ""
    /\ file = <<>> /\ cfg = NoCfg /\ db = NoDb
    /\ data = <<>> /\ query = NoQuery /\ result = NoResult
    /\ order = <<>> /\ residues = {} /\ rendered = {}
    /\ gen = NoGen /\ engine = NoEngine /\ call = NoCall
    /\ searcher = NoSearcher

\* api.initiate(force)
Initiate(force) ==
    /\ phase = "api"
    /\ fs' = InitiateOutcome(fs, force)
    /\ UNCHANGED <<phase, file, cfg, db, data, query, result, order, residues, rendered, gen, engine, call, searcher>>

\* api.update_config(filepath) with a valid file of the user
UpdateConfig ==
    /\ phase = "api"
    /\ fs' = [fs EXCEPT !.op = "update_config", !.force = FALSE, !.path = "",
                        !.confirm = FALSE, !.existed = (fs.home = "dir"), !.returned = "",
                        !.config = IF fs.home = "dir" THEN "user" ELSE @,
                        !.error = IF fs.home = "dir" THEN "" ELSE "FileNotFoundError"]
    /\ UNCHANGED <<phase, file, cfg, db, data, query, result, order, residues, rendered, gen, engine, call, searcher>>

\* api.update_database(filepath) with a valid file of the user
UpdateDatabase ==
    /\ phase = "api"
    /\ fs' = [fs EXCEPT !.op = "update_database", !.force = FALSE, !.path = "",
                        !.confirm = FALSE, !.existed = (fs.home = "dir"), !.returned = "",
                        !.db = IF fs.home = "dir" THEN "user" ELSE @,
                        !.error = IF fs.home = "dir" THEN "" ELSE "FileNotFoundError"]
    /\ UNCHANGED <<phase, file, cfg, db, data, query, result, order, residues, rendered, gen, engine, call, searcher>>

\* api.run(input_path, output_path)
Run(output) ==
    /\ phase = "api"
    /\ fs' = RunOutcome(fs, output)
    /\ UNCHANGED <<phase, file, cfg, db, data, query, result, order, residues, rendered, gen, engine, call, searcher>>

\* glyhunter run, the user answering the confirmation with confirm
CliRun(output, confirm) ==
    /\ phase = "api"
    /\ fs' = CliRunOutcome(fs, output, confirm)
    /\ UNCHANGED <<phase, file, cfg, db, data, query, result, order, residues, rendered, gen, engine, call, searcher>>

NextApi ==
    \/ \E force \in BOOLEAN : Initiate(force)
    \/ UpdateConfig
    \/ UpdateDatabase
    \/ \E output \in OutputPaths : Run(output)
    \/ \E output \in OutputPaths, confirm \in BOOLEAN : CliRun(output, confirm)

SpecApi == InitApi /\ [][NextApi]_vars

\* C14: initiate(force=False) on an existing .glyhunter directory raises
\* FileExistsError and leaves both files as they were; every other initiate
\* ends with the directory and both files present, holding the packaged defaults
C14_InitiateKeepsOrResets ==
    [][fs'.op = "initiate" =>
          IF fs.home = "dir" /\ ~fs'.force
          THEN /\ fs'.error = "FileExistsError"
               /\ fs'.home = "dir" /\ fs'.db = fs.db /\ fs'.config = fs.config
          ELSE /\ fs'.error = ""
               /\ fs'.home = "dir" /\ fs'.db = "default" /\ fs'.config = "default"]_vars

\* C14 witness: initiate(force=False) has raised on a directory that holds
\* the user's own files
C14_Witness ==
    /\ fs.op = "initiate" /\ ~fs.force /\ fs.existed
    /\ fs.error = "FileExistsError"
    /\ fs.db = "user" /\ fs.config = "user"

\* C15: api.run without an output path, the results directory not existing
\* before the call, returns the default path; api.run raises FileExistsError
\* only if the output directory existed before the call; and a run of the
\* CLI that removed the directory on confirmation ends without an error
C15_RunUsesDefaultDirectory ==
    /\ (fs.op = "run" /\ fs.path = "default" /\ ~fs.existed) =>
           (fs.error = "" /\ fs.returned = "default")
    /\ (fs.op = "run" /\ fs.error = "FileExistsError") => fs.existed
    /\ (fs.op = "cli_run" /\ fs.confirm) => fs.error = ""

(***************************************************************************)
(* Reconfiguring a DeNovoEngine: the three property setters, and searches  *)
(* of the reconfigured engine.  engine.error is the exception the          *)
(* constructor or the last assignment raised.                              *)
(***************************************************************************)
\* modifications.setter: the attribute is assigned, then the candidates are
\* derived; an exception leaves the candidates as they were
AssignModifications(e, value) ==
    LET e1 == [e EXCEPT !.modifications = value]
        cands == UpdateMonoCandidates(value, e.mono_constraints, e.global_mod_constraints)
    IN  IF cands.error # NoError
        THEN [e1 EXCEPT !.error = cands.error]
        ELSE [e1 EXCEPT !.error = NoError, !.mono_candidates = cands.monos]

\* mono_constraints.setter: the attribute is assigned, then the candidates
\* and the constraints are derived
AssignMonoConstraints(e, value) ==
    LET e1 == [e EXCEPT !.mono_constraints = value]
        cands == UpdateMonoCandidates(e.modifications, value, e.global_mod_constraints)
    IN  IF cands.error # NoError
        THEN [e1 EXCEPT !.error = cands.error]
        ELSE [e1 EXCEPT !.error = NoError, !.mono_candidates = cands.monos,
                        !.constraints = UpdateConstraints(value, e.global_mod_constraints)]

\* global_mod_constraints.setter
AssignGlobalModConstraints(e, value) ==
    LET e1 == [e EXCEPT !.global_mod_constraints = value]
        cands == UpdateMonoCandidates(e.modifications, e.mono_constraints, value)
    IN  IF cands.error # NoError
        THEN [e1 EXCEPT !.error = cands.error]
        ELSE [e1 EXCEPT !.error = NoError, !.mono_candidates = cands.monos,
                        !.constraints = UpdateConstraints(e.mono_constraints, value)]

\* the modification maps an engine is configured with; Fuc is no residue name
ModificationValues ==
    { <<Entry("Hex", <<0, One>>), Entry("HexNAc", <<0>>)>>,
      <<Entry("Hex", <<0>>)>>,
      <<Entry("Hex", <<0>>), Entry("Fuc", <<0>>)>> }

\* the residue constraints (name -> (min, max))
MonoConstraintValues ==
    { <<Entry("Hex", <<0, 2>>), Entry("HexNAc", <<0, 1>>)>>,
      <<Entry("Hex", <<1, 2>>), Entry("HexNAc", <<0, 0>>), Entry("Fuc", <<0, 1>>)>>,
      <<Entry("Hex", <<2, 1>>), Entry("HexNAc", <<0, 1>>)>>,
      <<Entry("Hex", <<0, 0>>)>> }

\* the global modification constraints (name -> maximum count)
GlobalValues == { <<>>, <<Entry("Ac", 1)>>, <<Entry("Ac", 0)>> }

\* the compositions around whose m/z a reconfigured engine is queried
ReconfiguredQueryComps ==
    { <<>>,
      <<Entry(Mono("Hex", 0), 1)>>,
      <<Entry(Mono("Hex", 0), 1), Entry(Mono("Ac", 0), 2)>> }

ReconfiguredOffsets == {-One, 0}

ReconfiguredTolerances == {0, One}

InitEngine ==
    /\ phase = "denovo"
    /\ engine \in {e \in {NewEngine("Na+", One, m, c, g) :
                              m \in ModificationValues, c \in MonoConstraintValues,
                              g \in GlobalValues} : e.error = NoError}
    /\ data = <<>> /\ query = NoQuery /\ result = NoResult
    /\ file = <<>> /\ cfg = NoCfg /\ db = NoDb
    /\ order = <<>> /\ residues = {} /\ rendered = {}
    /\ gen = NoGen
    /\ call = NoCall /\ fs = NoFs
    /\ searcher = NoSearcher

\* engine.modifications = value
SetModifications(value) ==
    /\ phase = "denovo"
    /\ engine' = AssignModifications(engine, value)
    /\ query' = NoQuery /\ result' = NoResult
    /\ UNCHANGED <<phase, file, cfg, db, data, order, residues, rendered, gen, call, fs, searcher>>

\* engine.mono_constraints = value
SetMonoConstraints(value) ==
    /\ phase = "denovo"
    /\ engine' = AssignMonoConstraints(engine, value)
    /\ query' = NoQuery /\ result' = NoResult
    /\ UNCHANGED <<phase, file, cfg, db, data, order, residues, rendered, gen, call, fs, searcher>>

\* engine.global_mod_constraints = value
SetGlobalModConstraints(value) ==
    /\ phase = "denovo"
    /\ engine' = AssignGlobalModConstraints(engine, value)
    /\ query' = NoQuery /\ result' = NoResult
    /\ UNCHANGED <<phase, file, cfg, db, data, order, residues, rendered, gen, call, fs, searcher>>

\* the queries put to a reconfigured engine
ReconfiguredQueries ==
    {IonMz(Ion(c, engine.reducing_end, engine.charge_carrier)) + d :
        c \in ReconfiguredQueryComps, d \in ReconfiguredOffsets}

NextEngine ==
    \/ \E value \in ModificationValues : SetModifications(value)
    \/ \E value \in MonoConstraintValues : SetMonoConstraints(value)
    \/ \E value \in GlobalValues : SetGlobalModConstraints(value)
    \/ \E mz \in ReconfiguredQueries, tol \in ReconfiguredTolerances : EngineSearch(mz, tol)

SpecEngine == InitEngine /\ [][NextEngine]_vars

\* the candidates and constraints derived from the configuration e holds now
Derived(e) ==
    [cands |-> UpdateMonoCandidates(e.modifications, e.mono_constraints,
                                    e.global_mod_constraints),
     constraints |-> UpdateConstraints(e.mono_constraints, e.global_mod_constraints)]

\* C22: after construction and after any sequence of assignments to
\* modifications, mono_constraints and global_mod_constraints, the engine's
\* _mono_candidates and _constraints are the ones derived from the
\* configuration it holds at that moment.
C22_NeverStale ==
    phase = "denovo" =>
        /\ Derived(engine).cands.error = NoError
        /\ engine.mono_candidates = Derived(engine).cands.monos
        /\ engine.constraints = Derived(engine).constraints

\* C26: no engine holds a residue constraint whose maximum is below its
\* minimum: constructing or reconfiguring with one raises.
C26_NoInvertedConstraint ==
    phase = "denovo" =>
        \A i \in 1..Len(engine.mono_constraints) :
            engine.mono_constraints[i].val[1] <= engine.mono_constraints[i].val[2]

\* C27: an assignment that raises leaves the stored configuration, the
\* candidates and the merged constraints as they were before it.
C27_RaisingAssignmentChangesNothing ==
    [][engine'.error # NoError =>
          /\ engine'.modifications = engine.modifications
          /\ engine'.mono_constraints = engine.mono_constraints
          /\ engine'.global_mod_constraints = engine.global_mod_constraints
          /\ engine'.mono_candidates = engine.mono_candidates
          /\ engine'.constraints = engine.constraints]_vars

\* a search of an engine whose construction or last assignment succeeded
ConfiguredSearch == phase = "denovo" /\ engine.error = NoError /\ result.op = "search"

\* the residue-mass budget of the last query
QueryTarget ==
    query.mz - MASSES[engine.charge_carrier] - engine.reducing_end - MASSES["H20"]

\* a search of any engine, whatever its last assignment did
EngineSearched == phase = "denovo" /\ result.op = "search"

\* C21: every ion a search returns carries the engine's reducing_end and
\* charge_carrier, lies within tol of the queried m/z, holds of every residue
\* name of mono_constraints a total count within [min, max], and holds of
\* every global modification at most its maximum count.
C21_ReturnedIonsMeetQueryAndConstraints ==
    EngineSearched =>
        \A k \in 1..Len(result.ions) :
            LET ion == result.ions[k]
            IN  /\ ion.reducing_end = engine.reducing_end
                /\ ion.charge_carrier = engine.charge_carrier
                /\ Abs(IonMz(ion) - query.mz) <= query.tol
                /\ \A i \in 1..Len(engine.mono_constraints) :
                       LET n == AggregatedCount(ion.comp, engine.mono_constraints[i].key)
                       IN  /\ n >= engine.mono_constraints[i].val[1]
                           /\ n <= engine.mono_constraints[i].val[2]
                /\ \A i \in 1..Len(engine.global_mod_constraints) :
                       LET n == AggregatedCount(ion.comp, engine.global_mod_constraints[i].key)
                       IN  n >= 0 /\ n <= engine.global_mod_constraints[i].val

\* the maximum count the engine's configuration gives a residue or global
\* modification name
MaxCountOf(name) ==
    IF HasKey(engine.mono_constraints, name)
    THEN DictGet(engine.mono_constraints, name)[2]
    ELSE DictGetDefault(engine.global_mod_constraints, name, 0)

\* the alphabet as the claim words it
AlphabetOfConfiguration ==
    LET mods == engine.modifications
        globs == engine.global_mod_constraints
        allowed == SelectSeq(mods, LAMBDA m : DictGet(engine.mono_constraints, m.key)[2] > 0)
        used == SelectSeq(globs, LAMBDA g : g.val > 0)
    IN  Flatten([i \in 1..Len(allowed) |->
                   [j \in 1..Len(allowed[i].val) |->
                      [name |-> allowed[i].key, modi |-> allowed[i].val[j]]]])
        \o [i \in 1..Len(used) |-> [name |-> used[i].key, modi |-> 0]]

C24_ZeroBudgetGivesBareIon ==
    (EngineSearched /\ Abs(QueryTarget) <= query.tol) =>
        /\ CombinationSum(QueryTarget, query.tol,
                          [i \in 1..Len(engine.mono_candidates) |->
                             MonoMass(engine.mono_candidates[i])])
              = [deep |-> FALSE, solutions |-> << <<>> >>]
        /\ (\A i \in 1..Len(engine.constraints) : engine.constraints[i].val[1] = 0)
              => result.ions = <<Ion(<<>>, engine.reducing_end, engine.charge_carrier)>>

\* an engine with candidates was asked for a budget of -1 with tolerance 1
\* and returned the bare ion
C24_Witness ==
    /\ ConfiguredSearch
    /\ QueryTarget = -One /\ query.tol = One
    /\ engine.mono_candidates # <<>>
    /\ Len(result.ions) = 1 /\ result.ions[1].comp = <<>>

\* C25 as stated: with an empty alphabet a search returns an empty list for
\* every mz and tol and does not raise, and so does a search whose budget is
\* negative and outside tolerance.
C25_EmptyAlphabetFindsNothing ==
    (EngineSearched /\ (engine.mono_candidates = <<>> \/ QueryTarget < -query.tol)) =>
        result.ions = <<>> /\ ~result.deep

\* C25: with an empty alphabet a search does not raise and returns an empty
\* list for every mz and tol whose budget is not 0 within tolerance; for a
\* budget of 0 within tolerance it returns what C24 says.  A search whose
\* budget is negative and outside tolerance returns an empty list whatever
\* the alphabet.
C25_EmptyAlphabetFindsNothingButBareIon ==
    /\ (EngineSearched /\ engine.mono_candidates = <<>>) =>
           /\ ~result.deep
           /\ Abs(QueryTarget) > query.tol => result.ions = <<>>
    /\ (EngineSearched /\ QueryTarget < -query.tol) =>
           result.ions = <<>> /\ ~result.deep

\* an engine without candidates was asked for a positive budget outside
\* tolerance and returned nothing
C25_Witness ==
    /\ ConfiguredSearch
    /\ engine.mono_candidates = <<>>
    /\ QueryTarget > query.tol
    /\ result.ions = <<>> /\ ~result.deep

(***************************************************************************)
(* Searching a mass list (search.MassListSearcher).  m/z values are counted *)
(* in hundredths.  The search engine is any object with search and         *)
(* search_closest; here it is a table of ions [glycan, mz, charge_carrier] *)
(* searched as Database searches its data.                                 *)
(***************************************************************************)
\* the calibrated_mz of a peak of a mass list that was not calibrated (None)
Uncalibrated == <<>>

\* Peak(raw_mz, calibrated_mz, ...)
Peak(raw_mz, calibrated_mz) == [raw_mz |-> raw_mz, calibrated_mz |-> calibrated_mz]

\* Peak.mz
PeakMz(peak) ==
    IF peak.calibrated_mz # Uncalibrated THEN peak.calibrated_mz[1] ELSE peak.raw_mz

\* search_engine.search(mz, tol)
TableSearch(ions, mz, tol) ==
    LET hits == SelectSeq(ions, LAMBDA c : Abs(c.mz - mz) <= tol)
        keyed == [i \in 1..Len(hits) |-> [sortkey |-> Abs(hits[i].mz - mz), item |-> hits[i]]]
        s == Sorted(keyed)
    IN  [i \in 1..Len(s) |-> s[i].item]

\* search_engine.search_closest(mz, tol)
TableSearchClosest(ions, mz, tol) ==
    LET r == TableSearch(ions, mz, tol)
    IN  IF r # <<>> THEN Some(r[1]) ELSE None

\* tol = peak.mz * self.mz_tol / 1e6; a distance, a whole number of
\* hundredths, is within it iff it is within its integer part
PeakTol(peak, mz_tol) == (PeakMz(peak) * mz_tol) \div 10^6

\* MassListSearcher.make_record
MakeRecord(peak, ion) ==
    [glycan |-> ion.glycan, raw_mz |-> peak.raw_mz, calibrated_mz |-> peak.calibrated_mz,
     theoretical_mz |-> ion.mz, charge_carrier |-> ion.charge_carrier]

\* the loop of MassListSearcher.run: the records in the order of the peaks
Records(s, mass_list) ==
    Flatten([i \in 1..Len(mass_list) |->
               LET peak == mass_list[i]
                   tol == PeakTol(peak, s.mz_tol)
               IN  IF s.all_candidates
                   THEN LET ions == TableSearch(s.search_engine, PeakMz(peak), tol)
                        IN  [k \in 1..Len(ions) |-> MakeRecord(peak, ions[k])]
                   ELSE LET ion == TableSearchClosest(s.search_engine, PeakMz(peak), tol)
                        IN  IF ion.some THEN <<MakeRecord(peak, ion.ion[1])>> ELSE <<>>])

\* result_df.dropna(subset=["calibrated_mz"])
DropNa(records) == SelectSeq(records, LAMBDA r : r.calibrated_mz # Uncalibrated)

\* round(n / d, 0) for d > 0, halves to the even neighbour
RoundDiv(n, d) ==
    LET q == n \div d
        r == n % d
    IN  IF 2 * r < d THEN q
        ELSE IF 2 * r > d THEN q + 1
        ELSE IF q % 2 = 0 THEN q ELSE q + 1

\* _add_delta_and_ppm_columns on rows that hold a calibrated_mz: delta in
\* hundredths of m/z, ppm in hundredths of ppm ((delta / raw_mz * 1e6).round(2))
AddDeltaAndPpmColumns(records) ==
    [i \in 1..Len(records) |->
       LET r == records[i]
           delta == r.calibrated_mz[1] - r.theoretical_mz
       IN  [glycan |-> r.glycan, raw_mz |-> r.raw_mz, calibrated_mz |-> r.calibrated_mz,
            theoretical_mz |-> r.theoretical_mz, charge_carrier |-> r.charge_carrier,
            delta |-> delta, ppm |-> RoundDiv(delta * 10^8, r.raw_mz)]]

\* the orders df.sort_values("ppm") can give the rows: ascending ppm, rows of
\* equal ppm in any order (the default sort is not stable)
SortValuesPpm(rows) ==
    LET n == Len(rows)
        perms == {p \in [1..n -> 1..n] :
                    /\ \A i, j \in 1..n : i # j => p[i] # p[j]
                    /\ \A i, j \in 1..n : i < j => rows[p[i]].ppm <= rows[p[j]].ppm}
    IN  {[i \in 1..n |-> rows[p[i]]] : p \in perms}

\* drop_duplicates("glycan", keep="first")
DropDuplicatesKeepFirst(rows) ==
    LET kept == {i \in 1..Len(rows) : \A j \in 1..(i - 1) : rows[j].glycan # rows[i].glycan}
        keyed == [i \in 1..Len(rows) |-> [sortkey |-> i, item |-> rows[i]]]
        s == SelectSeq(keyed, LAMBDA x : x.sortkey \in kept)
    IN  [i \in 1..Len(s) |-> s[i].item]

\* _drop_glycan_duplicates: the data frames it can return
DropGlycanDuplicates(rows) == {DropDuplicatesKeepFirst(sorted) : sorted \in SortValuesPpm(rows)}

\* MassListSearcher.get_result_df_from_records: the data frames it can return
GetResultDfFromRecords(s, records) ==
    LET result_df == AddDeltaAndPpmColumns(DropNa(records))
    IN  IF ~s.all_candidates THEN DropGlycanDuplicates(result_df) ELSE {result_df}

\* the longest mass list
MaxPeaks == 2

\* the ions of the search engine: two glycans 0.03 apart at m/z 1000
TableIons ==
    << [glycan |-> "HexNAc(2)Hex(5)NeuAc(1)", mz |-> 100000, charge_carrier |-> "Na+"],
       [glycan |-> "HexNAc(2)Hex(5)", mz |-> 100003, charge_carrier |-> "Na+"] >>

\* the raw m/z of the peaks
RawMzs == {99998, 100000, 100001, 100003}

\* what MassList.calibrate adds to the raw m/z of every peak
CalibrationShifts == {0, 1}

\* mz_tol in ppm
MzTols == {10, 30}

\* MassList.__iter__: the peaks of a mass list with these raw m/z, calibrated
\* by this shift or (<<>>) not calibrated
PeaksOf(raws, calibration) ==
    [i \in 1..Len(raws) |->
       Peak(raws[i], IF calibration = <<>> THEN Uncalibrated ELSE <<raws[i] + calibration[1]>>)]

InitSearcher ==
    /\ phase = "masslist"
    /\ \E n \in 1..MaxPeaks, mz_tol \in MzTols, all_candidates \in BOOLEAN :
          \E raws \in [1..n -> RawMzs], calibration \in {<<>>} \cup {<<c>> : c \in CalibrationShifts} :
             searcher = [search_engine |-> TableIons, mz_tol |-> mz_tol,
                         all_candidates |-> all_candidates,
                         mass_list |-> PeaksOf(raws, calibration),
                         called |-> FALSE, rows |-> <<>>]
    /\ data = <<>> /\ query = NoQuery /\ result = NoResult
    /\ file = <<>> /\ cfg = NoCfg /\ db = NoDb
    /\ order = <<>> /\ residues = {} /\ rendered = {}
    /\ gen = NoGen /\ engine = NoEngine
    /\ call = NoCall /\ fs = NoFs

\* MassListSearcher.run(mass_list)
SearcherRun ==
    /\ phase = "masslist"
    /\ ~searcher.called
    /\ \E rows \in GetResultDfFromRecords(searcher, Records(searcher, searcher.mass_list)) :
          searcher' = [searcher EXCEPT !.called = TRUE, !.rows = rows]
    /\ UNCHANGED <<phase, file, cfg, db, data, query, result, order, residues, rendered, gen, engine, call, fs>>

NextSearcher == SearcherRun

SpecSearcher == InitSearcher /\ [][NextSearcher]_vars

\* the glycans the engine matches the i-th peak of the mass list with
MatchedGlycans(i) ==
    LET peak == searcher.mass_list[i]
        tol == PeakTol(peak, searcher.mz_tol)
        ions == TableSearch(searcher.search_engine, PeakMz(peak), tol)
    IN  IF ions = <<>> THEN {}
        ELSE IF searcher.all_candidates THEN {ions[k].glycan : k \in 1..Len(ions)}
        ELSE {ions[1].glycan}

\* C29: with all_candidates False the result holds at most one row per
\* glycan, and of the peaks that match one glycan the row kept is the one with
\* the smallest |ppm|.
C29_KeptRowIsBestMatch ==
    (phase = "masslist" /\ searcher.called /\ ~searcher.all_candidates) =>
        /\ \A a, b \in 1..Len(searcher.rows) :
               a # b => searcher.rows[a].glycan # searcher.rows[b].glycan
        /\ \A a \in 1..Len(searcher.rows) :
               \A i \in 1..Len(searcher.mass_list) :
                  (/\ searcher.mass_list[i].calibrated_mz # Uncalibrated
                   /\ searcher.rows[a].glycan \in MatchedGlycans(i))
                  => Abs(searcher.rows[a].ppm)
                        <= Abs(RoundDiv((PeakMz(searcher.mass_list[i])
                                         - searcher.rows[a].theoretical_mz) * 10^8,
                                        searcher.mass_list[i].raw_mz))

\* C30: every peak the engine has a match for contributes a row, calibrated
\* or not: a row of that peak's raw m/z and matched glycan (of the matched
\* glycan when all_candidates is False and a better peak holds the row),
\* whose delta is the peak's effective m/z less the theoretical m/z.
C30_MatchedPeakKeepsItsRow ==
    (phase = "masslist" /\ searcher.called) =>
        \A i \in 1..Len(searcher.mass_list) : \A g \in MatchedGlycans(i) :
           \E a \in 1..Len(searcher.rows) :
              /\ searcher.rows[a].glycan = g
              /\ searcher.all_candidates =>
                    /\ searcher.rows[a].raw_mz = searcher.mass_list[i].raw_mz
                    /\ searcher.rows[a].delta
                          = PeakMz(searcher.mass_list[i]) - searcher.rows[a].theoretical_mz

====
